---- MODULE Spec2Model ----
(***************************************************************************)
(* The concealment engine of obsidian-latex-suite: the conceal state field *)
(* and its update listener (src/editor_extensions/conceal.ts) driven by    *)
(* the scanner of conceal_fns.ts, modelled as a state machine.             *)
(*                                                                         *)
(* Positions are 0-based offsets as in the source; a text is a sequence of *)
(* one-character strings, so the character at offset i is text[i + 1].     *)
(***************************************************************************)
EXTENDS Integers, Sequences, FiniteSets, TLC

(***************************************************************************)
(* Bounds of the model.                                                    *)
(***************************************************************************)
\* Largest number of tokens in the body of the equation of a document.
MaxTokens == 1
\* Largest width (to - from) of a selection range the host sets.
MaxSelSpan == 1
\* Largest position of the ranges and Replacements the classifier is run on
\* by itself.
MaxPos == 3
\* Largest number of tokens of an equation text the scanner is run on by
\* itself, and largest offset of such an equation in its document.
MaxEqnTokens == 6
MaxStart == 2
\* Largest number of tokens of an equation text the symbol, operator and
\* modifier matchers are run on by themselves.
MaxSymTokens == 4
\* Largest length of a text the bracket matcher is run on by itself.
MaxBracketLen == 6
\* Largest length of a document the region locator is run on by itself.
MaxLocateLen == 4

(***************************************************************************)
(* Text helpers (JavaScript string primitives used by the source).         *)
(***************************************************************************)
Min(a, b) == IF a <= b THEN a ELSE b
Max(a, b) == IF a >= b THEN a ELSE b

\* String.prototype.charAt: the empty string outside the text.
charAt(text, i) == IF i >= 0 /\ i < Len(text) THEN text[i + 1] ELSE ""

\* String.prototype.substring(from, to) for 0 <= from; clamps to the text.
substring(text, from, to) ==
    LET t == Min(Max(to, from), Len(text))
        f == Min(from, Len(text))
    IN  SubSeq(text, f + 1, t)

\* Does the literal `lit` occur in `text` at offset i ?
startsWithAt(text, lit, i) ==
    /\ i >= 0
    /\ i + Len(lit) <= Len(text)
    /\ SubSeq(text, i + 1, i + Len(lit)) = lit

\* Variant of isLetter: no character counts as a letter.
isLetter_never(c) == FALSE

isLetter(c) ==
    c \in {"a","b","c","d","e","f","g","h","i","j","k","l","m","n","o","p","q",
           "r","s","t","u","v","w","x","y","z",
           "A","B","C","D","E","F","G","H","I","J","K","L","M","N","O","P","Q",
           "R","S","T","U","V","W","X","Y","Z"}

(***************************************************************************)
(* Documents of the model: one inline equation $...$ whose body is a       *)
(* sequence of at most MaxTokens tokens followed by a superscript ^2.      *)
(***************************************************************************)
TokSup == <<"^", "2">>
TokVar == <<"x">>
TokSet == <<"\\", "s", "e", "t", "{", "}">>
Tokens == {TokSup, TokVar, TokSet}

\* Bodies(n): the token sequences of at most n tokens, flattened to characters.
RECURSIVE Bodies(_)
Bodies(n) ==
    IF n = 0 THEN {<<>>}
    ELSE Bodies(n - 1) \cup {b \o t : b \in Bodies(n - 1), t \in Tokens}

Docs == {<<"$">> \o b \o TokSup \o <<"$">> : b \in Bodies(MaxTokens)}

(***************************************************************************)
(* Host collaborators: the change set of a transaction and its position    *)
(* mapping, and the selection (an ordered list of ranges).                 *)
(***************************************************************************)
\* A change set replaces [from, to) by `insert`; NoChange leaves the text.
NoChange == [from |-> 0, to |-> 0, insert |-> <<>>]

applyChange(text, ch) ==
    SubSeq(text, 1, ch.from) \o ch.insert \o SubSeq(text, ch.to + 1, Len(text))

\* update.changes.mapPos(pos, assoc) of the host for a one-range change set.
mapPos(ch, pos, assoc) ==
    LET ins == Len(ch.insert)
        len == ch.to - ch.from
    IN  IF len = 0 /\ ins = 0 THEN pos
        ELSE IF pos < ch.from THEN pos
        ELSE IF pos > ch.to THEN pos - len + ins
        ELSE IF len = 0 THEN (IF assoc < 0 THEN ch.from ELSE ch.from + ins)
        ELSE IF pos = ch.from THEN ch.from
        ELSE IF pos = ch.to THEN ch.from + ins
        ELSE (IF assoc < 0 THEN ch.from ELSE ch.from + ins)

\* The host maps a selection range through a change that sets no selection.
mapRange(ch, r) ==
    IF r.from = r.to
    THEN LET p == mapPos(ch, r.from, -1) IN [from |-> p, to |-> p]
    ELSE LET f == mapPos(ch, r.from, 1)
             t == mapPos(ch, r.to, -1)
         IN  [from |-> Min(f, t), to |-> Max(f, t)]

cursorAt(p) == <<[from |-> p, to |-> p]>>

(***************************************************************************)
(* Bracket matcher and region locator (src/utils).                         *)
(***************************************************************************)
RECURSIVE findMatchingBracketFrom(_, _, _, _, _, _)
findMatchingBracketFrom(text, i, brackets, openBracket, closeBracket, stop) ==
    IF i >= stop THEN -1
    ELSE IF substring(text, i, i + Len(openBracket)) = openBracket
         THEN findMatchingBracketFrom(text, i + 1, brackets + 1,
                                      openBracket, closeBracket, stop)
    ELSE IF substring(text, i, i + Len(closeBracket)) = closeBracket
         THEN IF brackets - 1 = 0 THEN i
              ELSE findMatchingBracketFrom(text, i + 1, brackets - 1,
                                           openBracket, closeBracket, stop)
    ELSE findMatchingBracketFrom(text, i + 1, brackets,
                                 openBracket, closeBracket, stop)

\* Variant of findMatchingBracket: the first closing bracket, whatever the
\* nesting.
findMatchingBracket_firstClose(text, start, openBracket, closeBracket) ==
    LET hits == {i \in start..(Len(text) - 1) :
                    substring(text, i, i + Len(closeBracket)) = closeBracket}
    IN  IF hits = {} THEN -1 ELSE CHOOSE i \in hits : \A j \in hits : i <= j

\* findMatchingBracket(text, start, open, close, false): forward search.
findMatchingBracket(text, start, openBracket, closeBracket) ==
    findMatchingBracketFrom(text, start, 0, openBracket, closeBracket, Len(text))

\* Variant of reverse: the text is left as it is.
reverse_identity(text) == text

\* reverse(s): s.split("").reverse().join("").
reverse(text) == [k \in 1..Len(text) |-> text[Len(text) + 1 - k]]

\* findMatchingBracket(text, start, open, close, true): backward search, a
\* forward search in the reversed text with the reversed brackets swapped.
findMatchingBracketBackwards(text, start, openBracket, closeBracket) ==
    LET reversedIndex ==
            findMatchingBracket(reverse(text),
                                Len(text) - (start + Len(closeBracket)),
                                reverse(closeBracket), reverse(openBracket))
    IN  IF reversedIndex = -1 THEN -1
        ELSE Len(text) - (reversedIndex + Len(openBracket))

\* text.replaceAll("\\$", "\\R"): an escaped dollar is no delimiter.
RECURSIVE ignoreEscapedDollar(_, _)
ignoreEscapedDollar(text, i) ==
    IF i >= Len(text) THEN <<>>
    ELSE IF startsWithAt(text, <<"\\", "$">>, i)
         THEN <<"\\", "R">> \o ignoreEscapedDollar(text, i + 2)
         ELSE <<text[i + 1]>> \o ignoreEscapedDollar(text, i + 1)

\* String.prototype.lastIndexOf(c, fromIndex) and indexOf(c, fromIndex).
lastIndexOf(text, c, fromIndex) ==
    LET f == Max(fromIndex, 0)
        hits == {i \in 0..(Len(text) - 1) : i <= f /\ text[i + 1] = c}
    IN  IF hits = {} THEN -1 ELSE CHOOSE i \in hits : \A j \in hits : j <= i

indexOf(text, c, fromIndex) ==
    LET hits == {i \in 0..(Len(text) - 1) : i >= fromIndex /\ text[i + 1] = c}
    IN  IF hits = {} THEN -1 ELSE CHOOSE i \in hits : \A j \in hits : i <= j

NoBounds == [start |-> -1, end |-> -1]

boundsOf(left, right) ==
    IF left = -1 \/ right = -1 THEN NoBounds
    ELSE [start |-> left + 1, end |-> right]

boundsIn(text, pos) ==
    boundsOf(lastIndexOf(text, "$", pos - 1), indexOf(text, "$", pos))

getEquationBounds(docText, pos) == boundsIn(ignoreEscapedDollar(docText, 0), pos)

(***************************************************************************)
(* Scanner (conceal_fns.ts).  A Replacement is [start, end, replacement];  *)
(* a ConcealSpec is [isSet, parts]: a single Replacement (isSet = FALSE,   *)
(* one part) or an array of Replacements (isSet = TRUE).                   *)
(***************************************************************************)
Replacement(s, e, r) == [start |-> s, end |-> e, replacement |-> r]
Single(r) == [isSet |-> FALSE, parts |-> <<r>>]
Group(rs) == [isSet |-> TRUE, parts |-> rs]

\* iterConcealSpec visits the individual Replacements of a spec in order.
iterConcealSpec(spec) == spec.parts

LIMITS == <<"\\", "l", "i", "m", "i", "t", "s">>

\* Variant of getEndIncludingLimits: a following \limits is left alone.
getEndIncludingLimits_never(eqn, end) == end

getEndIncludingLimits(eqn, end) ==
    IF substring(eqn, end, end + Len(LIMITS)) = LIMITS
    THEN end + Len(LIMITS)
    ELSE end

\* The superscript table: the keys that can follow "^" in a model document.
map_super == << [name |-> <<"2">>, glyph |-> "sup2"] >>

\* The first alternative of prefix(name1|name2|...) that matches at offset i
\* (0 when none does): a regular expression tries alternatives in order.
firstAlternativeAt(eqn, prefix, symbolMap, i) ==
    LET ok == {k \in 1..Len(symbolMap) :
                   startsWithAt(eqn, prefix \o symbolMap[k].name, i)}
    IN  IF ok = {} THEN 0 ELSE CHOOSE k \in ok : \A j \in ok : k <= j

RECURSIVE concealSymbolsFrom(_, _, _, _, _)
concealSymbolsFrom(eqn, prefix, symbolMap, allowSucceedingLetters, i) ==
    IF i >= Len(eqn) THEN <<>>
    ELSE LET k == firstAlternativeAt(eqn, prefix, symbolMap, i)
         IN  IF k = 0
             THEN concealSymbolsFrom(eqn, prefix, symbolMap,
                                     allowSucceedingLetters, i + 1)
             ELSE LET matchEnd == i + Len(prefix) + Len(symbolMap[k].name)
                      rest == concealSymbolsFrom(eqn, prefix, symbolMap,
                                                 allowSucceedingLetters, matchEnd)
                  IN  IF ~allowSucceedingLetters /\ isLetter(charAt(eqn, matchEnd))
                      THEN rest
                      ELSE <<Single(Replacement(i,
                                        getEndIncludingLimits(eqn, matchEnd),
                                        symbolMap[k].glyph))>> \o rest

concealSymbols(eqn, prefix, symbolMap, allowSucceedingLetters) ==
    concealSymbolsFrom(eqn, prefix, symbolMap, allowSucceedingLetters, 0)

\* The command table and the operator list: the entries of the model texts,
\* in the order of the keys of the table.  The glyphs are named: the
\* plus-minus sign of \pm, the element sign of \in, the infinity sign of
\* \infty.
cmd_symbols ==
    << [name |-> <<"p", "m">>, glyph |-> "plusminus"],
       [name |-> <<"i", "n">>, glyph |-> "element"],
       [name |-> <<"i", "n", "f", "t", "y">>, glyph |-> "infinity"] >>
operators == << [name |-> <<"l", "i", "m">>, glyph |-> "lim"] >>

\* The alternative with which (\\(sym|...))([^a-zA-Z]|$) matches at offset i
\* (0 when none): the name must be followed by a non-letter or by the end.
operatorAt(eqn, symbols, i) ==
    LET ok == {k \in 1..Len(symbols) :
                   /\ startsWithAt(eqn, <<"\\">> \o symbols[k].name, i)
                   /\ ~isLetter(charAt(eqn, i + 1 + Len(symbols[k].name)))}
    IN  IF ok = {} THEN 0 ELSE CHOOSE k \in ok : \A j \in ok : k <= j

\* The matches of the operator pattern; a match takes the character behind
\* the name with it, so the next match starts behind that character.
RECURSIVE concealOperatorsFrom(_, _, _)
concealOperatorsFrom(eqn, symbols, i) ==
    IF i >= Len(eqn) THEN <<>>
    ELSE LET k == operatorAt(eqn, symbols, i)
         IN  IF k = 0 THEN concealOperatorsFrom(eqn, symbols, i + 1)
             ELSE LET start == i
                      nameEnd == start + 1 + Len(symbols[k].name)
                      matchEnd == Min(nameEnd + 1, Len(eqn))
                  IN  <<Single(Replacement(start,
                                           getEndIncludingLimits(eqn, nameEnd),
                                           symbols[k].glyph))>>
                      \o concealOperatorsFrom(eqn, symbols, matchEnd)

concealOperators(eqn, symbols) == concealOperatorsFrom(eqn, symbols, 0)

\* Variant of modifierAt: the argument is any one character.
modifierAt_anyCharacter(eqn, modifier, i) ==
    /\ startsWithAt(eqn, <<"\\">> \o modifier \o <<"{">>, i)
    /\ charAt(eqn, i + Len(modifier) + 2) # ""
    /\ charAt(eqn, i + Len(modifier) + 3) = "}"

\* Does \\modifier{([A-Za-z])} match at offset i ?
modifierAt(eqn, modifier, i) ==
    /\ startsWithAt(eqn, <<"\\">> \o modifier \o <<"{">>, i)
    /\ isLetter(charAt(eqn, i + Len(modifier) + 2))
    /\ charAt(eqn, i + Len(modifier) + 3) = "}"

\* The replacement of a modifier is the string of two code points: the
\* letter and the combining character.
RECURSIVE concealModifierFrom(_, _, _, _)
concealModifierFrom(eqn, modifier, combiningCharacter, i) ==
    IF i >= Len(eqn) THEN <<>>
    ELSE IF ~modifierAt(eqn, modifier, i)
         THEN concealModifierFrom(eqn, modifier, combiningCharacter, i + 1)
    ELSE LET matchLength == Len(modifier) + 4
             symbol == charAt(eqn, i + Len(modifier) + 2)
         IN  <<Single(Replacement(i, i + matchLength,
                                  <<symbol, combiningCharacter>>))>>
             \o concealModifierFrom(eqn, modifier, combiningCharacter,
                                    i + matchLength)

concealModifier(eqn, modifier, combiningCharacter) ==
    concealModifierFrom(eqn, modifier, combiningCharacter, 0)

HatModifier == <<"h", "a", "t">>
CombiningCircumflex == "U+0302"

SetCommand == <<"\\", "s", "e", "t", "{">>

\* Variant of concealSetFrom: the scan ends at the first command whose brace
\* has no match.
RECURSIVE concealSetFrom_stopsAtUnmatched(_, _)
concealSetFrom_stopsAtUnmatched(eqn, i) ==
    IF i >= Len(eqn) THEN <<>>
    ELSE IF ~startsWithAt(eqn, SetCommand, i)
         THEN concealSetFrom_stopsAtUnmatched(eqn, i + 1)
    ELSE LET commandStart == i
             contentStart == commandStart + Len(SetCommand) - 1
             contentEnd == findMatchingBracket(eqn, commandStart, <<"{">>, <<"}">>)
         IN  IF contentEnd = -1 THEN <<>>
             ELSE <<Group(<<Replacement(commandStart, contentStart, ""),
                            Replacement(contentStart, contentStart + 1, "{"),
                            Replacement(contentEnd, contentEnd + 1, "}")>>)>>
                  \o concealSetFrom_stopsAtUnmatched(eqn, i + Len(SetCommand))

RECURSIVE concealSetFrom(_, _)
concealSetFrom(eqn, i) ==
    IF i >= Len(eqn) THEN <<>>
    ELSE IF ~startsWithAt(eqn, SetCommand, i) THEN concealSetFrom(eqn, i + 1)
    ELSE LET commandStart == i
             contentStart == commandStart + Len(SetCommand) - 1
             contentEnd == findMatchingBracket(eqn, commandStart, <<"{">>, <<"}">>)
             rest == concealSetFrom(eqn, i + Len(SetCommand))
         IN  IF contentEnd = -1 THEN rest
             ELSE <<Group(<<Replacement(commandStart, contentStart, ""),
                            Replacement(contentStart, contentStart + 1, "{"),
                            Replacement(contentEnd, contentEnd + 1, "}")>>)>>
                  \o rest

concealSet(eqn) == concealSetFrom(eqn, 0)

\* The alternatives of /\\(braket|bra|ket){/ in the order of the pattern.
\* The glyphs are named: langle and rangle are the angle brackets.
BraKetTypes ==
    << [type |-> "braket", name |-> <<"b", "r", "a", "k", "e", "t">>],
       [type |-> "bra", name |-> <<"b", "r", "a">>],
       [type |-> "ket", name |-> <<"k", "e", "t">>] >>

\* The alternative with which the pattern matches at offset i (0 when none).
braKetAt(eqn, i) ==
    LET ok == {k \in 1..Len(BraKetTypes) :
                   startsWithAt(eqn, <<"\\">> \o BraKetTypes[k].name \o <<"{">>, i)}
    IN  IF ok = {} THEN 0 ELSE CHOOSE k \in ok : \A j \in ok : k <= j

\* Variant of leftDelimiter: every type opens with the angle bracket.
leftDelimiter_alwaysAngle(type) == "langle"

\* const left = type === "ket" ? vert : langle;
leftDelimiter(type) == IF type = "ket" THEN "vert" ELSE "langle"

\* const right = type === "bra" ? vert : rangle;
rightDelimiter(type) == IF type = "bra" THEN "vert" ELSE "rangle"

RECURSIVE concealBraKetFrom(_, _)
concealBraKetFrom(eqn, i) ==
    IF i >= Len(eqn) THEN <<>>
    ELSE IF braKetAt(eqn, i) = 0 THEN concealBraKetFrom(eqn, i + 1)
    ELSE LET type == BraKetTypes[braKetAt(eqn, i)].type
             matchLength == Len(BraKetTypes[braKetAt(eqn, i)].name) + 2
             contentEnd == findMatchingBracket(eqn, i, <<"{">>, <<"}">>)
             commandStart == i
             contentStart == commandStart + matchLength - 1
             left == leftDelimiter(type)
             right == rightDelimiter(type)
             rest == concealBraKetFrom(eqn, i + matchLength)
         IN  IF contentEnd = -1 THEN rest
             ELSE <<Group(<<Replacement(commandStart, contentStart, ""),
                            Replacement(contentStart, contentStart + 1, left),
                            Replacement(contentEnd, contentEnd + 1, right)>>)>>
                  \o rest

concealBraKet(eqn) == concealBraKetFrom(eqn, 0)

FracCommand == <<"\\", "f", "r", "a", "c", "{">>

RECURSIVE concealFractionFrom(_, _)
concealFractionFrom(eqn, i) ==
    IF i >= Len(eqn) THEN <<>>
    ELSE IF ~startsWithAt(eqn, FracCommand, i) THEN concealFractionFrom(eqn, i + 1)
    ELSE LET numeratorEnd == findMatchingBracket(eqn, i, <<"{">>, <<"}">>)
             denominatorEnd ==
                 findMatchingBracket(eqn, numeratorEnd + 1, <<"{">>, <<"}">>)
             commandStart == i
             numeratorStart == commandStart + Len(FracCommand) - 1
             denominatorStart == numeratorEnd + 1
             rest == concealFractionFrom(eqn, i + Len(FracCommand))
         IN  IF numeratorEnd = -1 THEN rest
             ELSE IF charAt(eqn, numeratorEnd + 1) # "{" THEN rest
             ELSE IF denominatorEnd = -1 THEN rest
             ELSE <<Group(<<Replacement(commandStart, numeratorStart, ""),
                            Replacement(numeratorStart, numeratorStart + 1, "("),
                            Replacement(numeratorEnd, numeratorEnd + 1, ")"),
                            Replacement(numeratorEnd + 1, numeratorEnd + 1, "/"),
                            Replacement(denominatorStart, denominatorStart + 1, "("),
                            Replacement(denominatorEnd, denominatorEnd + 1, ")")>>)>>
                  \o rest

concealFraction(eqn) == concealFractionFrom(eqn, 0)

\* The ends of the begin-math syntax nodes of a document: one past each
\* unescaped "$" that opens an inline equation.
openingDollars(dollars) ==
    {d \in dollars : Cardinality({j \in dollars : j < d}) % 2 = 0}

dollarsOf(text) == {i \in 0..(Len(text) - 1) : text[i + 1] = "$"}

mathBeginEnds(docText) ==
    {i + 1 : i \in openingDollars(dollarsOf(ignoreEscapedDollar(docText, 0)))}

\* Variant of shiftSpec: only the start of a Replacement is translated.
shiftSpec_startOnly(spec, offset) ==
    [spec EXCEPT !.parts =
        [k \in 1..Len(spec.parts) |->
            [spec.parts[k] EXCEPT !.start = @ + offset]]]

\* Translate a spec from equation offsets to document offsets.
shiftSpec(spec, offset) ==
    [spec EXCEPT !.parts =
        [k \in 1..Len(spec.parts) |->
            [spec.parts[k] EXCEPT !.start = @ + offset, !.end = @ + offset]]]

RECURSIVE seqOfSet(_)
seqOfSet(S) ==
    IF S = {} THEN <<>>
    ELSE LET m == CHOOSE x \in S : \A y \in S : x <= y
         IN  <<m>> \o seqOfSet(S \ {m})

\* The matchers of one equation, in the order of the source.  Of the
\* matchers of conceal() only the superscript symbols and the bra-ket, set
\* and fraction matchers can match a text over the characters of the model;
\* the others yield the empty list on every model text.
matchers(eqn) ==
    concealSymbols(eqn, <<"^">>, map_super, TRUE)
        \o concealBraKet(eqn) \o concealSet(eqn) \o concealFraction(eqn)

\* Variant of shiftAll: only the first spec of the list is translated.
shiftAll_firstOnly(lst, offset) ==
    [k \in 1..Len(lst) |-> IF k = 1 THEN shiftSpec(lst[k], offset) ELSE lst[k]]

shiftAll(lst, offset) == [k \in 1..Len(lst) |-> shiftSpec(lst[k], offset)]

concealBounds(docText, bounds) ==
    IF bounds = NoBounds THEN <<>>
    ELSE shiftAll(matchers(SubSeq(docText, bounds.start + 1, bounds.end)),
                  bounds.start)

concealEquation(docText, nodeTo) ==
    concealBounds(docText, getEquationBounds(docText, nodeTo))

RECURSIVE concealNodes(_, _)
concealNodes(docText, nodes) ==
    IF nodes = <<>> THEN <<>>
    ELSE concealEquation(docText, Head(nodes)) \o concealNodes(docText, Tail(nodes))

conceal(docText) == concealNodes(docText, seqOfSet(mathBeginEnds(docText)))

(***************************************************************************)
(* Cursor classifier and reconciliation (conceal.ts).                      *)
(***************************************************************************)
\* Variant of atSamePosAfter: the start sticks to the left and the end to
\* the right of an insertion.
atSamePosAfter_swappedBias(changes, oldConceal, newConceal) ==
    /\ oldConceal.isSet = newConceal.isSet
    /\ Len(oldConceal.parts) = Len(newConceal.parts)
    /\ \A i \in 1..Len(oldConceal.parts) :
          /\ mapPos(changes, oldConceal.parts[i].start, -1)
               = newConceal.parts[i].start
          /\ mapPos(changes, oldConceal.parts[i].end, 1)
               = newConceal.parts[i].end

atSamePosAfter(changes, oldConceal, newConceal) ==
    IF ~oldConceal.isSet /\ ~newConceal.isSet
    THEN /\ mapPos(changes, oldConceal.parts[1].start, 1) = newConceal.parts[1].start
         /\ mapPos(changes, oldConceal.parts[1].end, -1) = newConceal.parts[1].end
    ELSE IF oldConceal.isSet /\ newConceal.isSet
    THEN /\ Len(oldConceal.parts) = Len(newConceal.parts)
         /\ \A i \in 1..Len(oldConceal.parts) :
               /\ mapPos(changes, oldConceal.parts[i].start, 1)
                    = newConceal.parts[i].start
               /\ mapPos(changes, oldConceal.parts[i].end, -1)
                    = newConceal.parts[i].end
    ELSE FALSE

\* Variant of cursorStep: an overlap of one point is always an edge.
cursorStep_pointIsEdge(cur, range, singleSpec) ==
    LET overlapRangeFrom == Max(range.from, singleSpec.start)
        overlapRangeTo == Min(range.to, singleSpec.end)
    IN  IF overlapRangeFrom = overlapRangeTo THEN "edge"
        ELSE IF overlapRangeFrom <= overlapRangeTo THEN "within"
        ELSE cur

\* One callback of determineCursorPosType: the type after comparing one
\* range with one Replacement, given the type so far ("edge" or "apart").
cursorStep(cur, range, singleSpec) ==
    LET overlapRangeFrom == Max(range.from, singleSpec.start)
        overlapRangeTo == Min(range.to, singleSpec.end)
    IN  IF overlapRangeFrom = overlapRangeTo
           /\ (overlapRangeFrom = singleSpec.start
               \/ overlapRangeFrom = singleSpec.end)
        THEN "edge"
        ELSE IF overlapRangeFrom <= overlapRangeTo THEN "within"
        ELSE cur

\* Variant of cursorOverParts: the iteration goes on after a "within".
RECURSIVE cursorOverParts_noStop(_, _, _, _)
cursorOverParts_noStop(cur, range, parts, k) ==
    IF k > Len(parts) THEN cur
    ELSE cursorOverParts_noStop(cursorStep(cur, range, parts[k]),
                                range, parts, k + 1)

\* The iteration over the Replacements of a spec stops at the first "within".
RECURSIVE cursorOverParts(_, _, _, _)
cursorOverParts(cur, range, parts, k) ==
    IF k > Len(parts) THEN cur
    ELSE LET nxt == cursorStep(cur, range, parts[k])
         IN  IF nxt = "within" THEN "within"
             ELSE cursorOverParts(nxt, range, parts, k + 1)

RECURSIVE cursorOverRanges(_, _, _, _)
cursorOverRanges(cur, ranges, spec, r) ==
    IF r > Len(ranges) THEN cur
    ELSE LET nxt == cursorOverParts(cur, ranges[r], iterConcealSpec(spec), 1)
         IN  IF nxt = "within" THEN "within"
             ELSE cursorOverRanges(nxt, ranges, spec, r + 1)

determineCursorPosType(selection, concealSpec) ==
    cursorOverRanges("apart", selection, concealSpec, 1)

\* Variant of determineAction: a cursor arriving at the edge always delays
\* the reveal of a concealment that existed before.
determineAction_delayFromWithin(oldCursor, newCursor, mouseIsDown) ==
    IF mouseIsDown THEN "conceal"
    ELSE IF newCursor = "apart" THEN "conceal"
    ELSE IF newCursor = "within" THEN "reveal"
    ELSE IF oldCursor = "none" THEN "reveal"
    ELSE "delay"

\* Variant of determineAction: a concealment that did not exist before is
\* handled like one the cursor was apart from.
determineAction_noneAsApart(oldCursor, newCursor, mouseIsDown) ==
    IF mouseIsDown THEN "conceal"
    ELSE IF newCursor = "apart" THEN "conceal"
    ELSE IF newCursor = "within" THEN "reveal"
    ELSE IF oldCursor = "within" THEN "reveal"
    ELSE "delay"

\* oldCursor is "none" when no old concealment is at the same position.
determineAction(oldCursor, newCursor, mouseIsDown) ==
    IF mouseIsDown THEN "conceal"
    ELSE IF newCursor = "apart" THEN "conceal"
    ELSE IF newCursor = "within" THEN "reveal"
    ELSE IF oldCursor = "none" \/ oldCursor = "within" THEN "reveal"
    ELSE "delay"

\* Variant of oldCursorPosType: the type of the last old concealment is
\* taken, whether it is at the same position or not.
oldCursorPosType_lastConcealment(changes, oldConcealments, concealSpec) ==
    IF oldConcealments = <<>> THEN "none"
    ELSE oldConcealments[Len(oldConcealments)].cursorPosType

\* oldState.concealments.find(...)?.cursorPosType: the first old concealment
\* at the same position after the update.
oldCursorPosType(changes, oldConcealments, concealSpec) ==
    LET hits == {i \in 1..Len(oldConcealments) :
                    atSamePosAfter(changes, oldConcealments[i].spec, concealSpec)}
    IN  IF hits = {} THEN "none"
        ELSE oldConcealments[CHOOSE i \in hits : \A j \in hits : i <= j].cursorPosType

(***************************************************************************)
(* The state of one editor view.                                           *)
(***************************************************************************)
VARIABLES
    doc,          \* view.state.doc, the document text
    sel,          \* view.state.selection.ranges
    mousedown,    \* view.plugin(livePreviewState).mousedown
    field,        \* view.state.field(concealStateField): a ConcealState
    timers,       \* pending timeouts: handle -> what its callback captured
    pc,           \* "idle", or "listener": a dispatched conceal update is
                  \* being handed to the update listener
    upd,          \* the ViewUpdate of that dispatch
    destroyed,    \* the view has been destroyed
    recon,        \* history: the latest reconciliation: the concealments it
                  \* installed, its timeout handle and delayed indices, and,
                  \* until its dispatch has been delivered, its decisions,
                  \* the changes of its update, the concealments the
                  \* reconciliation before it installed and whether it
                  \* cancelled a pending timeout
    last,         \* history: the latest step, if a timeout callback ran in it
                  \* or the listener returned at its guard on a host update
    reconSinceEvent,  \* history: reconciliations (counted up to 2) in the
                      \* run of the listener that the latest host update
                      \* or timer firing started; 0 once the run has ended
    unreconciled      \* history: host updates with a document, viewport or
                      \* selection change not reconciled (counted up to 2)

vars == <<doc, sel, mousedown, field, timers, pc, upd, destroyed,
          recon, last, reconSinceEvent, unreconciled>>

\* The value of revealTimeout when no timeout was set.
NoTimer == 0

Concealment(spec, cursorPosType, enable) ==
    [spec |-> spec, cursorPosType |-> cursorPosType, enable |-> enable]

\* Variant of ConcealState: the installed state does not keep the handle.
ConcealState_noHandle(concealments, revealTimeout) ==
    [concealments |-> concealments, revealTimeout |-> NoTimer]

ConcealState(concealments, revealTimeout) ==
    [concealments |-> concealments, revealTimeout |-> revealTimeout]

\* concealStateField.create()
create == ConcealState(<<>>, NoTimer)

\* Variant of fieldUpdate: a transaction without the effect resets the state.
fieldUpdate_reset(oldState, effects) ==
    IF effects = <<>> THEN create ELSE effects[Len(effects)]

\* concealStateField.update(oldState, transaction): the last
\* updateConcealEffect of the transaction wins; without one the state stays.
fieldUpdate(oldState, effects) ==
    IF effects = <<>> THEN oldState ELSE effects[Len(effects)]

\* The decoration buildDecoSet pushes for one Replacement: a widget where
\* start = end, a replacing decoration otherwise.
decoration(singleSpec) ==
    IF singleSpec.start = singleSpec.end
    THEN [kind |-> "widget", from |-> singleSpec.start, to |-> singleSpec.end,
          replacement |-> singleSpec.replacement,
          inclusiveStart |-> FALSE, inclusiveEnd |-> FALSE]
    ELSE [kind |-> "replace", from |-> singleSpec.start, to |-> singleSpec.end,
          replacement |-> singleSpec.replacement,
          inclusiveStart |-> singleSpec.replacement = "",
          inclusiveEnd |-> FALSE]

\* Variant of decosOf: a concealment is painted whatever its enable flag.
decosOf_ignoresEnable(concealment) ==
    [k \in 1..Len(iterConcealSpec(concealment.spec)) |->
        decoration(iterConcealSpec(concealment.spec)[k])]

\* One turn of the loop of buildDecoSet.
decosOf(concealment) ==
    IF ~concealment.enable THEN <<>>
    ELSE [k \in 1..Len(iterConcealSpec(concealment.spec)) |->
             decoration(iterConcealSpec(concealment.spec)[k])]

RECURSIVE decosFrom(_, _)
decosFrom(concealments, i) ==
    IF i > Len(concealments) THEN <<>>
    ELSE decosOf(concealments[i]) \o decosFrom(concealments, i + 1)

\* buildDecoSet(concealState): the array decos in the order of the pushes;
\* Decoration.set(decos, true) orders the same decorations by position.
buildDecoSet(concealState) == decosFrom(concealState.concealments, 1)

ViewUpdate(docChanged, viewportChanged, selectionSet, changes, startField) ==
    [docChanged |-> docChanged, viewportChanged |-> viewportChanged,
     selectionSet |-> selectionSet, changes |-> changes,
     startField |-> startField]

NoUpdate == ViewUpdate(FALSE, FALSE, FALSE, NoChange, create)

\* The update that view.dispatch({effects: [updateConcealEffect.of(..)]})
\* hands to the listeners: no change, no selection, same viewport.
EffectUpdate(startField) ==
    ViewUpdate(FALSE, FALSE, FALSE, NoChange, startField)

Step(kind) == [kind |-> kind, timer |-> NoTimer, before |-> <<>>, delayed |-> {}]

NoRecon == [decisions |-> <<>>, timer |-> NoTimer, delayed |-> {},
            cancelled |-> FALSE, installed |-> <<>>, prev |-> <<>>,
            changes |-> NoChange]

Init ==
    /\ doc \in Docs
    /\ sel = cursorAt(0)
    /\ mousedown = FALSE
    /\ field = create
    /\ timers = <<>>
    /\ pc = "idle"
    /\ upd = NoUpdate
    /\ destroyed = FALSE
    /\ recon = NoRecon
    /\ last = Step("other")
    /\ reconSinceEvent = 0
    /\ unreconciled = 0

(***************************************************************************)
(* The update listener.                                                    *)
(***************************************************************************)
\* Variant of listenerGuard: the listener never returns early.
listenerGuard_always(update) == TRUE

\* Variant of listenerGuard: a viewport change alone is not reconciled.
listenerGuard_noViewport(update) ==
    update.docChanged \/ update.selectionSet

\* The listener goes on only when this holds:
\* if (!(docChanged || viewportChanged || selectionSet)) return;
listenerGuard(update) ==
    update.docChanged \/ update.viewportChanged \/ update.selectionSet

\* Variant of clearTimeout: the old timeout is left pending.
clearTimeout_ignored(pending, handle) == pending

\* clearTimeout(handle): a pending timeout is dropped, anything else ignored.
clearTimeout(pending, handle) ==
    [h \in DOMAIN pending \ {handle} |-> pending[h]]

\* Variant of shouldDelay: a timeout is set in every reconciliation.
shouldDelay_always(delayed) == TRUE

\* delayedConcealments.length > 0
shouldDelay(delayed) == delayed # {}

\* Variant of revealDelayed: the callback reveals nothing.
revealDelayed_nothing(concealments, delayed) == concealments

\* Variant of revealDelayed: every concealment of the list is revealed.
revealDelayed_all(concealments, delayed) ==
    [i \in 1..Len(concealments) |-> [concealments[i] EXCEPT !.enable = FALSE]]

\* The timeout callback: enable = false for the captured delayed concealments.
revealDelayed(concealments, delayed) ==
    [i \in 1..Len(concealments) |->
        IF i \in delayed THEN [concealments[i] EXCEPT !.enable = FALSE]
        ELSE concealments[i]]

\* A handle no live reference holds (setTimeout returns a fresh object).
freshHandle ==
    LET used == (DOMAIN timers)
                \cup {field.revealTimeout, upd.startField.revealTimeout,
                      recon.timer, last.timer}
    IN  CHOOSE h \in 1..(Cardinality(used) + 1) : h \notin used

\* Variant of ScanOf: with the mouse button down the scan stops after the
\* first spec.
ScanOf_mouseDependent ==
    [d \in Docs |-> IF mousedown THEN SubSeq(conceal(d), 1, 1) ELSE conceal(d)]

\* The scan of every model document (conceal is a function of the text),
\* tabulated once: f @@ <<>> is f as an explicit table.
ScanOf == [d \in Docs |-> conceal(d)] @@ <<>>

\* What the loop over the scanned specs decides for one spec.
decision(old, cursorPosType, mouseIsDown) ==
    [old |-> old, new |-> cursorPosType, mouse |-> mouseIsDown,
     action |-> determineAction(old, cursorPosType, mouseIsDown)]

decide(oldState, changes, selection, mouseIsDown, concealSpec) ==
    decision(oldCursorPosType(changes, oldState.concealments, concealSpec),
             determineCursorPosType(selection, concealSpec), mouseIsDown)

\* The loop over the scanned specs.
decideAll(oldState, changes, selection, mouseIsDown, concealSpecList) ==
    [i \in 1..Len(concealSpecList) |->
        decide(oldState, changes, selection, mouseIsDown, concealSpecList[i])]

\* Variant of concealmentsOf: only the action conceal enables.
concealmentsOf_concealOnly(concealSpecList, decisions) ==
    [i \in 1..Len(concealSpecList) |->
        Concealment(concealSpecList[i], decisions[i].new,
                    decisions[i].action = "conceal")]

\* Variant of concealmentsOf: with the mouse button down the concealment
\* is recorded as apart from the cursor.
concealmentsOf_apartOnMouseDown(concealSpecList, decisions) ==
    [i \in 1..Len(concealSpecList) |->
        Concealment(concealSpecList[i],
                    IF decisions[i].mouse THEN "apart" ELSE decisions[i].new,
                    decisions[i].action # "reveal")]

\* The concealments pushed by the loop, and the indices of the delayed ones.
concealmentsOf(concealSpecList, decisions) ==
    [i \in 1..Len(concealSpecList) |->
        Concealment(concealSpecList[i], decisions[i].new,
                    decisions[i].action # "reveal")]

delayedOf(decisions) ==
    {i \in 1..Len(decisions) : decisions[i].action = "delay"}

\* The listener returns at its guard.
ListenerReturns(fieldNow, waiting) ==
    /\ field' = fieldNow
    /\ pc' = "idle"
    /\ upd' = NoUpdate
    \* called for a host update (the view was idle) or for a dispatch of
    \* this module
    /\ last' = Step(IF pc = "idle" THEN "ignored" ELSE "other")
    /\ reconSinceEvent' = 0
    /\ unreconciled' = waiting
    /\ recon' = [recon EXCEPT !.decisions = <<>>, !.cancelled = FALSE,
                              !.prev = <<>>, !.changes = NoChange]
    /\ UNCHANGED timers

\* The listener reconciles: it cancels the old timeout, scans, decides,
\* sets a timeout for the delayed concealments and dispatches the new state.
\* (Each local value is bound once, in the order the listener computes it.)
Reconciles(update, docNow, selNow, fieldNow, sinceEvent, waiting) ==
    \E oldState \in {update.startField} :
    \E afterClear \in {clearTimeout(timers, oldState.revealTimeout)} :
    \E concealSpecList \in {ScanOf[docNow]} :
    \E decisions \in {decideAll(oldState, update.changes, selNow, mousedown,
                                concealSpecList)} :
    \E concealments \in {concealmentsOf(concealSpecList, decisions)} :
    \E delayed \in {delayedOf(decisions)} :
    \E revealTimeout \in {IF shouldDelay(delayed) THEN freshHandle ELSE NoTimer} :
        /\ timers' = IF revealTimeout = NoTimer THEN afterClear
                     ELSE [h \in DOMAIN afterClear \cup {revealTimeout} |->
                              IF h = revealTimeout
                              THEN [concealments |-> concealments,
                                    delayed |-> delayed]
                              ELSE afterClear[h]]
        /\ field' = fieldUpdate(fieldNow,
                                <<ConcealState(concealments, revealTimeout)>>)
        /\ upd' = EffectUpdate(fieldNow)
        /\ pc' = "listener"
        /\ recon' = [decisions |-> decisions, timer |-> revealTimeout,
                     delayed |-> delayed,
                     cancelled |-> oldState.revealTimeout \in DOMAIN timers,
                     installed |-> concealments, prev |-> recon.installed,
                     changes |-> update.changes]
        /\ last' = Step("other")
        /\ reconSinceEvent' = Min(sinceEvent + 1, 2)
        /\ unreconciled' = Max(waiting - 1, 0)

\* EditorView.updateListener.of((update) => ...), run on `update` when the
\* view holds docNow, selNow and fieldNow.
Listener(update, docNow, selNow, fieldNow, sinceEvent, waiting) ==
    IF ~listenerGuard(update)
    THEN ListenerReturns(fieldNow, waiting)
    ELSE Reconciles(update, docNow, selNow, fieldNow, sinceEvent, waiting)

(***************************************************************************)
(* Host updates.  The host applies the transaction (the conceal field is   *)
(* left alone: only this module dispatches updateConcealEffect) and calls  *)
(* the listener with the ViewUpdate.                                       *)
(***************************************************************************)
MaxDocLen == 2 + Len(TokSup) + MaxTokens * Len(TokSet)

RangesOn(len) ==
    {r \in [from : 0..len, to : 0..len] :
        r.from <= r.to /\ r.to - r.from <= MaxSelSpan}

HostRanges == [len \in 0..MaxDocLen |-> {r : r \in RangesOn(len)}] @@ <<>>

\* The changes the host can make: insert, delete or replace by a token so
\* that the result is a model document again.
ChangesOn(text) ==
    {ch \in [from : 0..Len(text), to : 0..Len(text), insert : Tokens \cup {<<>>}] :
        /\ ch.from <= ch.to
        /\ (ch.from < ch.to \/ ch.insert # <<>>)
        /\ applyChange(text, ch) \in Docs
        /\ applyChange(text, ch) # text}

HostChanges == [d \in Docs |-> {ch : ch \in ChangesOn(d)}] @@ <<>>

\* A host update changes the document, the viewport or the selection.
ChangesView(update) ==
    update.docChanged \/ update.viewportChanged \/ update.selectionSet

HostUpdate(update, docNow, selNow) ==
    /\ pc = "idle" /\ ~destroyed
    /\ doc' = docNow
    /\ sel' = selNow
    /\ Listener(update, docNow, selNow, fieldUpdate(field, <<>>), 0,
                IF ChangesView(update)
                THEN Min(unreconciled + 1, 2) ELSE unreconciled)
    /\ UNCHANGED <<mousedown, destroyed>>

\* The selection after a change: set by the transaction (the cursor goes
\* behind the inserted text) or mapped through the change.
selectionAfter(ch, selectionSet) ==
    IF selectionSet THEN cursorAt(ch.from + Len(ch.insert))
    ELSE [k \in 1..Len(sel) |-> mapRange(ch, sel[k])]

DocChange(ch, selectionSet) ==
    /\ pc = "idle" /\ ~destroyed
    /\ \E docNow \in {applyChange(doc, ch)} :
       \E selNow \in {selectionAfter(ch, selectionSet)} :
          HostUpdate(ViewUpdate(TRUE, FALSE, selectionSet, ch, field),
                     docNow, selNow)

SelectionChange(r) ==
    HostUpdate(ViewUpdate(FALSE, FALSE, TRUE, NoChange, field), doc, <<r>>)

ViewportChange ==
    HostUpdate(ViewUpdate(FALSE, TRUE, FALSE, NoChange, field), doc, sel)

\* An update that changes neither document, viewport nor selection (focus,
\* geometry, another extension's effect).
OtherUpdate ==
    HostUpdate(ViewUpdate(FALSE, FALSE, FALSE, NoChange, field), doc, sel)

\* The listener is called with the update of a dispatch of this module.
EffectDelivered ==
    /\ pc = "listener"
    /\ Listener(upd, doc, sel, field, reconSinceEvent, unreconciled)
    /\ UNCHANGED <<doc, sel, mousedown, destroyed>>

\* The mouse button goes down or up.
MouseToggle ==
    /\ pc = "idle" /\ ~destroyed
    /\ mousedown' = ~mousedown
    /\ last' = Step("other")
    /\ UNCHANGED <<doc, sel, field, timers, pc, upd, destroyed, recon,
                   reconSinceEvent, unreconciled>>

\* The host destroys the view.  The state field defines create, update and
\* provide only: nothing of it runs here.
Destroy ==
    /\ pc = "idle" /\ ~destroyed
    /\ destroyed' = TRUE
    /\ last' = Step("other")
    /\ UNCHANGED <<doc, sel, mousedown, field, timers, pc, upd, recon,
                   reconSinceEvent, unreconciled>>

(***************************************************************************)
(* The timeout callback of a pending delayed reveal.                       *)
(***************************************************************************)
TimerFire(h) ==
    /\ pc = "idle"
    /\ h \in DOMAIN timers
    /\ LET concealments == revealDelayed(timers[h].concealments, timers[h].delayed)
       IN  field' = fieldUpdate(field, <<ConcealState(concealments, NoTimer)>>)
    /\ timers' = [g \in DOMAIN timers \ {h} |-> timers[g]]
    \* a destroyed view takes the new state and calls no listener
    /\ pc' = IF destroyed THEN "idle" ELSE "listener"
    /\ upd' = IF destroyed THEN NoUpdate ELSE EffectUpdate(field)
    /\ last' = [kind |-> "fire", timer |-> h, before |-> field.concealments,
                delayed |-> timers[h].delayed]
    /\ reconSinceEvent' = 0
    /\ UNCHANGED <<doc, sel, mousedown, destroyed, recon, unreconciled>>

Next ==
    \/ \E ch \in HostChanges[doc], s \in BOOLEAN : DocChange(ch, s)
    \/ \E r \in HostRanges[Len(doc)] : SelectionChange(r)
    \/ ViewportChange
    \/ OtherUpdate
    \/ EffectDelivered
    \/ MouseToggle
    \/ Destroy
    \/ \E h \in DOMAIN timers : TimerFire(h)

Spec == Init /\ [][Next]_vars

\* The browser runs a due timeout callback once the event loop is free, and
\* the view calls the listener for every dispatch.
FairSpec ==
    /\ Spec
    /\ WF_vars(\E h \in DOMAIN timers : TimerFire(h))
    /\ WF_vars(EffectDelivered)

(***************************************************************************)
(* Properties.  recon.decisions holds, for each scanned spec of the latest *)
(* reconciliation, the old and new cursor position type, the mouse state   *)
(* and the action the listener took.                                       *)
(***************************************************************************)
\* The listener has reconciled and its dispatch is not yet delivered.
JustReconciled == pc = "listener" /\ last.kind # "fire"

\* The decision table for a concealment that existed before the update:
\* rows apart, edge, within; columns apart, edge, within; mouse override.
tableAction(old, new, mouse) ==
    CASE mouse -> "conceal"
      [] ~mouse /\ new = "apart" -> "conceal"
      [] ~mouse /\ new = "within" -> "reveal"
      [] ~mouse /\ new = "edge" /\ old = "within" -> "reveal"
      [] ~mouse /\ new = "edge" /\ old \in {"apart", "edge"} -> "delay"

\* C1: for a concealment with a match in the old state the action is a
\* function of (old, new, mouse): conceal when the mouse is down; otherwise
\* conceal for new = apart, reveal for new = within, and for new = edge
\* reveal when old = within and delay when old is apart or edge.
MatchedDecisionFollowsTable ==
    \A i \in DOMAIN recon.decisions :
        LET d == recon.decisions[i]
        IN  d.old # "none" => d.action = tableAction(d.old, d.new, d.mouse)

\* C1 witness: a matched concealment goes from within to edge with the
\* mouse up and is revealed.
WithinToEdgeReveals ==
    /\ JustReconciled
    /\ \E i \in DOMAIN recon.decisions :
          recon.decisions[i] = [old |-> "within", new |-> "edge",
                                mouse |-> FALSE, action |-> "reveal"]

\* C2 as stated: with the mouse up, a concealment without a match in the
\* old state is handled as one the cursor was apart from (conceal for
\* new = apart, delay for new = edge, reveal for new = within).
UnmatchedDecidesAsApart ==
    \A i \in DOMAIN recon.decisions :
        LET d == recon.decisions[i]
        IN  (d.old = "none" /\ ~d.mouse)
                => d.action = tableAction("apart", d.new, FALSE)

\* C2 amended: with the mouse up, a concealment without a match in the old
\* state is concealed for new = apart and revealed for new = edge and for
\* new = within (the N/A row of the table at determineAction).
UnmatchedDecidesAsWithin ==
    \A i \in DOMAIN recon.decisions :
        LET d == recon.decisions[i]
        IN  (d.old = "none" /\ ~d.mouse)
                => d.action = IF d.new = "apart" THEN "conceal" ELSE "reveal"

\* C2 witness: a concealment without a match, the cursor at its edge and the
\* mouse up, is revealed at once.
UnmatchedAtEdgeReveals ==
    /\ JustReconciled
    /\ \E i \in DOMAIN recon.decisions :
          recon.decisions[i] = [old |-> "none", new |-> "edge",
                                mouse |-> FALSE, action |-> "reveal"]

\* Two concealment lists name the same specs with the same cursor position
\* types in the same order.
sameCandidates(a, b) ==
    /\ Len(a) = Len(b)
    /\ \A i \in 1..Len(a) :
          a[i].spec = b[i].spec /\ a[i].cursorPosType = b[i].cursorPosType

\* A timeout callback ran in the latest step.
JustFired == last.kind = "fire"

\* C3: at most one delayed-reveal timeout is pending at any time.
AtMostOnePendingTimer == Cardinality(DOMAIN timers) <= 1

\* C3 witness: a timeout is pending while the view is quiescent, after an
\* earlier timeout of the same view has fired or has been cancelled.
TimerPendingAgain ==
    /\ pc = "idle"
    /\ field.revealTimeout \in DOMAIN timers
    /\ field.revealTimeout > 1

\* C4: a pending timeout is the one the latest reconciliation set, with the
\* concealments and the delayed set that reconciliation captured; a callback
\* that runs is that timeout's, and it changes enable flags of that delayed
\* set only.
OnlyLatestTimerActs ==
    /\ \A h \in DOMAIN timers :
          /\ h = recon.timer
          /\ timers[h] = [concealments |-> recon.installed,
                          delayed |-> recon.delayed]
    /\ JustFired =>
          /\ last.timer = recon.timer
          /\ last.delayed = recon.delayed
          /\ Len(field.concealments) = Len(last.before)
          /\ \A i \in 1..Len(last.before) :
                field.concealments[i].enable # last.before[i].enable
                    => i \in recon.delayed

\* C4 witness: a reconciliation made while a timeout was pending has
\* cancelled it and set a new one.
TimerSuperseded ==
    /\ JustReconciled
    /\ recon.cancelled
    /\ recon.timer \in DOMAIN timers

\* C5: a reconciliation sets a timeout iff an action of it is delay; the
\* installed state holds a handle exactly then; a reconciliation with the
\* mouse down sets none.
TimerIffDelay ==
    JustReconciled =>
        LET delaying == \E i \in DOMAIN recon.decisions :
                            recon.decisions[i].action = "delay"
        IN  /\ (field.revealTimeout # NoTimer) <=> delaying
            /\ (DOMAIN timers # {}) <=> delaying
            /\ delaying => field.revealTimeout \in DOMAIN timers
            /\ mousedown => field.revealTimeout = NoTimer /\ DOMAIN timers = {}

\* C5 witness: a reconciliation with a delay action has set a timeout and
\* installed its handle.
DelaySetsTimer ==
    /\ JustReconciled
    /\ \E i \in DOMAIN recon.decisions : recon.decisions[i].action = "delay"
    /\ field.revealTimeout \in DOMAIN timers

\* C6: the delayed set of a reconciliation is the set of its delay actions;
\* a callback that runs sets enable = false for exactly that set, keeps every
\* other enable flag, every spec and every cursor position type, dispatches
\* one update, leaves a state without handle, and is not pending any more.
TimerFireFrame ==
    /\ JustReconciled =>
          recon.delayed = {i \in DOMAIN recon.decisions :
                              recon.decisions[i].action = "delay"}
    /\ JustFired =>
          /\ sameCandidates(field.concealments, last.before)
          /\ \A i \in 1..Len(last.before) :
                field.concealments[i].enable =
                    IF i \in recon.delayed THEN FALSE
                    ELSE last.before[i].enable
          /\ field.revealTimeout = NoTimer
          /\ last.timer \notin DOMAIN timers
          /\ ~destroyed =>
                pc = "listener" /\ upd.startField.concealments = last.before

\* C6 witness: a callback has revealed a delayed concealment and has kept
\* another concealment of the list enabled.
TimerRevealedDelayedOnly ==
    /\ JustFired
    /\ \E i, j \in 1..Len(last.before) :
          /\ i \in recon.delayed /\ j \notin recon.delayed
          /\ last.before[i].enable /\ ~field.concealments[i].enable
          /\ last.before[j].enable /\ field.concealments[j].enable

\* C7: whenever a callback can run, the list it captured is the list of the
\* current state (same specs, order and cursor position types), and the
\* list a callback has published is the list of the state it replaced.
TimerPublishesCurrentList ==
    /\ \A h \in DOMAIN timers :
          sameCandidates(timers[h].concealments, field.concealments)
    /\ JustFired => sameCandidates(field.concealments, last.before)

\* C7 witness: a callback has run while the state held a list of two
\* concealments, and has published that list.
TimerFiredOnCurrentList ==
    /\ JustFired
    /\ ~destroyed
    /\ Len(field.concealments) > 1
    /\ sameCandidates(field.concealments, last.before)

\* C8 as stated: no timeout callback runs, and none dispatches a state, once
\* the view is destroyed.
NoCallbackAfterDestroy == ~(destroyed /\ JustFired)

\* C8 witness: the view is destroyed while a timeout is pending.
DestroyedWithTimerPending ==
    destroyed /\ DOMAIN timers # {}

\* C9: the step that delivers an update this module dispatched (after a
\* reconciliation or from a timeout callback) reconciles nothing: it leaves
\* the state and the timeouts alone and ends with no dispatch outstanding.
PublishedUpdateIsInert ==
    [][pc = "listener" =>
          (pc' = "idle" /\ field' = field /\ timers' = timers)]_vars

\* C9 witness: the view is quiescent with a reconciled, non-empty state:
\* the update that installed it has been delivered.
QuiescentAfterDispatch ==
    /\ pc = "idle" /\ ~destroyed
    /\ field.concealments # <<>>
    /\ sameCandidates(field.concealments, recon.installed)

\* C10: no host update that changes document, viewport or selection stays
\* unreconciled; the listener reconciles once per host update; the state
\* installed is the one computed from that update (its changes, the
\* document and selection it produced) and from the concealments the
\* reconciliation before it installed.
EveryUpdateReconciledInOrder ==
    /\ unreconciled = 0
    /\ reconSinceEvent <= 1
    /\ JustReconciled =>
          /\ sameCandidates(upd.startField.concealments, recon.prev)
          /\ field.concealments =
                concealmentsOf(ScanOf[doc],
                    decideAll(ConcealState(recon.prev, NoTimer), recon.changes,
                              sel, mousedown, ScanOf[doc]))

\* C10 witness: a host update has been reconciled against the non-empty
\* result of the reconciliation before it, and its result is installed.
SecondUpdateReconciled ==
    /\ JustReconciled
    /\ reconSinceEvent = 1
    /\ recon.prev # <<>>
    /\ field.concealments = recon.installed
    /\ recon.installed # recon.prev

\* C11: the state starts empty without handle; of the effects of one
\* transaction the last one is the new state and without an effect the state
\* stays; a step in which this module dispatches nothing (a host update the
\* listener ignores, the delivery of an own dispatch, a mouse event) leaves
\* the state and the pending timeouts as they are.
FieldChangesOnlyByEffect ==
    /\ field = create
    /\ [](/\ fieldUpdate(field, <<>>) = field
          /\ fieldUpdate(field, <<create, field>>) = field
          /\ fieldUpdate(field, <<field, create>>) = create)
    /\ [][(pc' = "idle" /\ last'.kind # "fire")
             => (field' = field /\ timers' = timers)]_vars

\* C11 witness: the listener has ignored a host update while the state held
\* concealments and a pending timeout.
IgnoredUpdateKeepsTimer ==
    /\ last.kind = "ignored"
    /\ field.concealments # <<>>
    /\ field.revealTimeout \in DOMAIN timers

(***************************************************************************)
(* The classifier by itself: determineCursorPosType applied to a selection *)
(* of one or two ranges in any order and to one candidate, a single        *)
(* Replacement or a group of two in any order.  As in every spec a matcher *)
(* emits, a candidate has a Replacement with start < end; a group may hold *)
(* a Replacement with start = end.  The view holds the candidate as the    *)
(* only concealment, classified apart and enabled before.                  *)
(***************************************************************************)
ClassifyRanges ==
    {r \in [from : 0..MaxPos, to : 0..MaxPos] : r.from <= r.to}

ClassifySelections ==
    {<<r>> : r \in ClassifyRanges}
        \cup {<<r1, r2>> : r1 \in ClassifyRanges, r2 \in ClassifyRanges}

ClassifyMembers ==
    {Replacement(r.from, r.to, "") : r \in ClassifyRanges}

ClassifySpecs ==
    {Single(m) : m \in {n \in ClassifyMembers : n.start < n.end}}
        \cup {Group(p) : p \in {q \in ClassifyMembers \X ClassifyMembers :
                                    \E k \in 1..2 : q[k].start < q[k].end}}

ClassifyInit ==
    /\ doc = <<>>
    /\ sel \in ClassifySelections
    /\ mousedown = FALSE
    /\ \E spec \in ClassifySpecs :
          field = ConcealState(<<Concealment(spec, "apart", TRUE)>>, NoTimer)
    /\ timers = <<>>
    /\ pc = "idle"
    /\ upd = NoUpdate
    /\ destroyed = FALSE
    /\ recon = NoRecon
    /\ last = Step("other")
    /\ reconSinceEvent = 0
    /\ unreconciled = 0

\* The listener's classification of the candidate for the selection.
Classify ==
    /\ pc = "idle"
    /\ pc' = "classified"
    /\ \E c \in {field.concealments[1]} :
          field' = ConcealState(
                       <<Concealment(c.spec,
                                     determineCursorPosType(sel, c.spec),
                                     c.enable)>>, NoTimer)
    /\ UNCHANGED <<doc, sel, mousedown, timers, upd, destroyed, recon, last,
                   reconSinceEvent, unreconciled>>

\* The candidate is revealed (concealment.enable = false).
Reveal ==
    /\ field.concealments[1].enable
    /\ field' = [field EXCEPT !.concealments[1].enable = FALSE]
    /\ UNCHANGED <<doc, sel, mousedown, timers, pc, upd, destroyed, recon,
                   last, reconSinceEvent, unreconciled>>

ClassifyNext == Classify \/ Reveal

ClassifySpec == ClassifyInit /\ [][ClassifyNext]_vars

\* The relation of one range to one Replacement, in the words of C12.
overlapFrom(r, m) == Max(r.from, m.start)
overlapTo(r, m) == Min(r.to, m.end)

pairWithin(r, m) ==
    \/ overlapFrom(r, m) < overlapTo(r, m)
    \/ r.from = r.to /\ m.start < r.from /\ r.from < m.end

pairEdge(r, m) ==
    /\ overlapFrom(r, m) = overlapTo(r, m)
    /\ overlapFrom(r, m) \in {m.start, m.end}

pairApart(r, m) == r.to < m.start \/ r.from > m.end

rangesOf(selection) == {selection[k] : k \in 1..Len(selection)}
membersOf(spec) == {spec.parts[k] : k \in 1..Len(spec.parts)}
reversed(q) == [k \in 1..Len(q) |-> q[Len(q) + 1 - k]]

\* The candidate the classifier has been run on, and its result.
Classified == pc = "classified"
candidate == field.concealments[1]

\* C12: the result is within iff some range and some member overlap in more
\* than a point or the range is a cursor strictly inside the member;
\* otherwise edge iff some range meets some member in the one point of its
\* start or end; otherwise apart, and then every range is off every member.
\* Reversing the ranges and the members gives the same result.
ClassifierFollowsOverlap ==
    Classified =>
        LET R == rangesOf(sel)
            M == membersOf(candidate.spec)
            W == \E r \in R, m \in M : pairWithin(r, m)
            E == \E r \in R, m \in M : pairEdge(r, m)
        IN  /\ candidate.cursorPosType =
                  (IF W THEN "within" ELSE IF E THEN "edge" ELSE "apart")
            /\ candidate.cursorPosType = "apart"
                  => \A r \in R, m \in M : pairApart(r, m)
            /\ candidate.cursorPosType =
                  determineCursorPosType(reversed(sel),
                      [candidate.spec EXCEPT !.parts = reversed(@)])

\* C12 witness: a cursor strictly inside the second member of a group, and
\* another range at the edge of the first, classify as within.
CursorInsideSecondMember ==
    /\ Classified
    /\ Len(sel) = 2 /\ candidate.spec.isSet
    /\ pairEdge(sel[1], candidate.spec.parts[1])
    /\ sel[2].from = sel[2].to
    /\ candidate.spec.parts[2].start < sel[2].from
    /\ sel[2].from < candidate.spec.parts[2].end
    /\ candidate.cursorPosType = "within"

\* The span of a candidate: from its least start to its greatest end.
spanContained(r, spec) ==
    \A m \in membersOf(spec) : r.from <= m.start /\ m.end <= r.to

mappedStart(ch, m) == mapPos(ch, m.start, 1)
mappedEnd(ch, m) == mapPos(ch, m.end, -1)

identified(ch, old, new) ==
    /\ old.isSet = new.isSet
    /\ Len(old.parts) = Len(new.parts)
    /\ \A k \in 1..Len(old.parts) :
          /\ mappedStart(ch, old.parts[k]) = new.parts[k].start
          /\ mappedEnd(ch, old.parts[k]) = new.parts[k].end

pureInsertion(ch) == ch.from = ch.to /\ ch.insert # <<>>

\* C14: a scanned spec has an old cursor position type iff an old spec of
\* the same kind and member count maps onto it, member by member, start
\* with right bias and end with left bias; and for an insertion at the start
\* or at the end of an old Replacement with start < end the mapped span keeps
\* its length and holds nothing of the inserted text.
IdentityFollowsBiasedMapping ==
    JustReconciled =>
        /\ \A i \in DOMAIN recon.decisions :
              (recon.decisions[i].old # "none") <=>
                  \E j \in DOMAIN recon.prev :
                      identified(recon.changes, recon.prev[j].spec,
                                 recon.installed[i].spec)
        /\ pureInsertion(recon.changes) =>
              \A j \in DOMAIN recon.prev :
                  \A m \in membersOf(recon.prev[j].spec) :
                      (m.start < m.end /\ recon.changes.from \in {m.start, m.end})
                      => /\ mappedEnd(recon.changes, m)
                              - mappedStart(recon.changes, m) = m.end - m.start
                         /\ \/ mappedEnd(recon.changes, m) <= recon.changes.from
                            \/ mappedStart(recon.changes, m)
                                  >= recon.changes.from
                                       + Len(recon.changes.insert)

\* An insertion at position p of an old single spec that is found again.
insertedAt(p, j) ==
    /\ JustReconciled
    /\ pureInsertion(recon.changes)
    /\ recon.changes.from = p
    /\ \E i \in DOMAIN recon.installed :
          /\ identified(recon.changes, recon.prev[j].spec,
                        recon.installed[i].spec)
          /\ recon.decisions[i].old = recon.prev[j].cursorPosType

\* C14 witness: text has been inserted at the start of an old Replacement,
\* and the spec scanned behind the inserted text is identified with it.
InsertionAtStartKeepsIdentity ==
    \E j \in DOMAIN recon.prev :
        /\ ~recon.prev[j].spec.isSet
        /\ insertedAt(recon.prev[j].spec.parts[1].start, j)

\* The number of Replacements of the enabled concealments from index i on.
RECURSIVE enabledMembers(_, _)
enabledMembers(concealments, i) ==
    IF i > Len(concealments) THEN 0
    ELSE (IF concealments[i].enable
          THEN Len(concealments[i].spec.parts) ELSE 0)
         + enabledMembers(concealments, i + 1)

\* A decoration paints the Replacement m: a widget at its position when it
\* has no width, a replacement of [start, end) otherwise.
paints(d, m) ==
    /\ d.from = m.start /\ d.to = m.end
    /\ d.replacement = m.replacement
    /\ d.kind = IF m.start = m.end THEN "widget" ELSE "replace"

\* C15: the decorations of a state are one per Replacement of each enabled
\* concealment and nothing else: each paints its Replacement (widget or
\* replacement), their number is the number of those Replacements, and a
\* disabled concealment adds none; so of the members of a group either all
\* are painted or none.
PaintsEnabledConcealmentsOnly ==
    LET decos == buildDecoSet(field)
        cs == field.concealments
    IN  /\ Len(decos) = enabledMembers(cs, 1)
        /\ \A d \in DOMAIN decos :
              \E i \in DOMAIN cs :
                  cs[i].enable
                  /\ \E m \in membersOf(cs[i].spec) : paints(decos[d], m)
        /\ \A i \in DOMAIN cs :
              LET painted == {k \in DOMAIN cs[i].spec.parts :
                                 \E d \in DOMAIN decos :
                                     paints(decos[d], cs[i].spec.parts[k])}
              IN  /\ cs[i].enable => painted = DOMAIN cs[i].spec.parts
                  /\ (~cs[i].enable /\ Len(cs) = 1) => painted = {}
                  /\ painted = DOMAIN cs[i].spec.parts \/ painted = {}

\* C15 witness: an enabled group with a Replacement of no width is painted
\* with a widget and a replacement.
GroupPaintedWithWidget ==
    /\ Classified
    /\ candidate.enable /\ candidate.spec.isSet
    /\ \E d1, d2 \in DOMAIN buildDecoSet(field) :
          /\ buildDecoSet(field)[d1].kind = "widget"
          /\ buildDecoSet(field)[d2].kind = "replace"

\* The decision for a cursor that comes to the edge of a concealment it was
\* apart from or at the edge of, with the mouse up.
comesToRestAtEdge(d) ==
    d.old \in {"apart", "edge"} /\ d.new = "edge" /\ ~d.mouse

\* C16: a concealment whose cursor comes to the edge from apart or edge,
\* mouse up, is installed enabled with a pending timeout that holds it; a
\* concealment held by a pending timeout is enabled; the callback disables
\* what it holds; and a pending timeout leads to its callback or to another
\* reconciliation (a host update).
EdgeRevealIsDelayed ==
    /\ [](JustReconciled =>
            \A i \in DOMAIN recon.decisions :
                comesToRestAtEdge(recon.decisions[i]) =>
                    /\ field.concealments[i].enable
                    /\ field.revealTimeout \in DOMAIN timers
                    /\ i \in timers[field.revealTimeout].delayed)
    /\ [](\A h \in DOMAIN timers :
            \A i \in timers[h].delayed : field.concealments[i].enable)
    /\ [](JustFired =>
            \A i \in last.delayed : ~field.concealments[i].enable)
    /\ ((pc = "idle" /\ DOMAIN timers # {}) ~> (JustFired \/ JustReconciled))

\* C16 witness: the callback has revealed a concealment that had been kept
\* enabled with the cursor at its edge.
DelayedEdgeRevealed ==
    /\ JustFired
    /\ \E i \in last.delayed :
          /\ last.before[i].cursorPosType = "edge"
          /\ last.before[i].enable
          /\ ~field.concealments[i].enable

\* C17: no flicker at an edge.  A reconciliation that leaves the document
\* unchanged, with the mouse up, does not enable again a concealment that was
\* revealed with the cursor at its edge and whose cursor is still at its edge.
NoFlickerAtEdge ==
    [][\A i \in DOMAIN field.concealments :
          ( /\ pc = "idle" /\ pc' = "listener" /\ last'.kind # "fire"
            /\ doc' = doc
            /\ ~mousedown
            /\ field.concealments[i].cursorPosType = "edge"
            /\ ~field.concealments[i].enable
            /\ i \in DOMAIN field'.concealments
            /\ field'.concealments[i].spec = field.concealments[i].spec
            /\ field'.concealments[i].cursorPosType = "edge" )
          => ~field'.concealments[i].enable]_vars

\* C18: every concealment of the field whose cursor is apart is enabled,
\* after every reconciliation and every timeout callback.
ApartIsConcealed ==
    \A i \in DOMAIN field.concealments :
        field.concealments[i].cursorPosType = "apart"
            => field.concealments[i].enable

\* C18 witness: a timeout callback revealed a concealment and left a
\* concealment the cursor is apart from in the same list.
ApartKeptByTimer ==
    /\ JustFired
    /\ \E i \in last.delayed : ~field.concealments[i].enable
    /\ \E i \in DOMAIN field.concealments :
          field.concealments[i].cursorPosType = "apart"

(***************************************************************************)
(* The scanner run by itself.  doc holds the text of one equation: at most *)
(* MaxEqnTokens tokens, each an opening brace, a closing brace, a letter   *)
(* or the command (with its brace) of one of the grouped matchers.  To     *)
(* each matcher the command of another one is letters and a brace, so one  *)
(* command per text loses no case.  field holds the scanned specs as       *)
(* concealments the cursor is apart from.                                  *)
(***************************************************************************)
ScanCommands ==
    {FracCommand, SetCommand} \cup
    {<<"\\">> \o BraKetTypes[k].name \o <<"{">> : k \in 1..Len(BraKetTypes)}

RECURSIVE ScanBodies(_, _)
ScanBodies(command, n) ==
    IF n = 0 THEN {<<>>}
    ELSE LET shorter == ScanBodies(command, n - 1)
         IN  shorter \cup
             {b \o t : b \in shorter,
                       t \in {command, <<"{">>, <<"}">>, <<"a">>}}

\* A fraction has two braces more than the other constructs, so the texts
\* of the other commands are two tokens shorter.
ScanTexts(n) ==
    ScanBodies(FracCommand, n) \cup
    UNION {ScanBodies(command, n - 2) : command \in ScanCommands \ {FracCommand}}

ScanInit ==
    /\ doc \in ScanTexts(MaxEqnTokens)
    /\ sel = cursorAt(0)
    /\ mousedown = FALSE
    /\ field = create
    /\ timers = <<>>
    /\ pc = "idle"
    /\ upd = NoUpdate
    /\ destroyed = FALSE
    /\ recon = NoRecon
    /\ last = Step("other")
    /\ reconSinceEvent = 0
    /\ unreconciled = 0

scanned(lst) ==
    ConcealState([k \in 1..Len(lst) |-> Concealment(lst[k], "apart", TRUE)],
                 NoTimer)

\* conceal() builds lst from the text of the equation.
Scan ==
    /\ pc = "idle"
    /\ pc' = "scanned"
    /\ field' = scanned(matchers(doc))
    /\ UNCHANGED <<doc, sel, mousedown, timers, upd, destroyed, recon, last,
                   reconSinceEvent, unreconciled>>

\* conceal() translates lst to the offsets of the document, for an equation
\* that starts at offset start.
Translate(start) ==
    /\ pc = "scanned"
    /\ pc' = "translated"
    /\ field' = scanned(shiftAll([k \in 1..Len(field.concealments) |->
                                     field.concealments[k].spec], start))
    /\ UNCHANGED <<doc, sel, mousedown, timers, upd, destroyed, recon, last,
                   reconSinceEvent, unreconciled>>

ScanNext == Scan \/ \E start \in 1..MaxStart : Translate(start)

ScanSpec == ScanInit /\ [][ScanNext]_vars

\* The number of occurrences of character c in text at offsets from..to.
countIn(text, c, from, to) ==
    Cardinality({j \in from..to : charAt(text, j) = c})

\* The closing brace that matches the opening brace at offset open: the
\* first brace behind it at which as many braces are closed as opened
\* (-1 when there is none).
closeOf(text, open) ==
    LET hits == {j \in (open + 1)..(Len(text) - 1) :
                    /\ charAt(text, j) = "}"
                    /\ countIn(text, "{", open, j) = countIn(text, "}", open, j)}
    IN  IF hits = {} THEN -1 ELSE CHOOSE j \in hits : \A k \in hits : j <= k

\* text holds \frac{N}{D} at offset p, N and D brace-balanced.
fractionAt(text, p) ==
    /\ startsWithAt(text, FracCommand, p)
    /\ closeOf(text, p + 5) # -1
    /\ charAt(text, closeOf(text, p + 5) + 1) = "{"
    /\ closeOf(text, closeOf(text, p + 5) + 1) # -1

\* The six Replacements of the fraction at offset p.
fractionParts(text, p) ==
    LET nClose == closeOf(text, p + 5)
        dClose == closeOf(text, nClose + 1)
    IN  << Replacement(p, p + 5, ""),
           Replacement(p + 5, p + 6, "("),
           Replacement(nClose, nClose + 1, ")"),
           Replacement(nClose + 1, nClose + 1, "/"),
           Replacement(nClose + 1, nClose + 2, "("),
           Replacement(dClose, dClose + 1, ")") >>

\* What the editor shows of text under the decorations decos, from offset
\* i on: at each offset the widgets, then the replacing widget that starts
\* there in place of its range, or else the character.
RECURSIVE rendering(_, _, _)
rendering(text, decos, i) ==
    LET at(kind) == {k \in 1..Len(decos) :
                        decos[k].kind = kind /\ decos[k].from = i}
        widgets == [k \in 1..Cardinality(at("widget")) |->
                       decos[seqOfSet(at("widget"))[k]].replacement]
        shown(r) == IF r = "" THEN <<>> ELSE <<r>>
    IN  IF i > Len(text) THEN <<>>
        ELSE widgets \o
             (IF at("replace") # {}
              THEN LET d == decos[CHOOSE k \in at("replace") : TRUE]
                   IN  shown(d.replacement) \o rendering(text, decos, d.to)
              ELSE IF i = Len(text) THEN <<>>
              ELSE <<text[i + 1]>> \o rendering(text, decos, i + 1))

SimpleFraction == FracCommand \o <<"a", "}", "{", "a", "}">>

\* C19: after the scan of an equation text, every \frac{N}{D} of the text
\* with brace-balanced N and D has exactly one spec that starts at it, the
\* group of its six Replacements in order (command, numerator braces, the
\* zero-width slash, denominator braces), and \frac{a}{a} reads (a)/(a).
FractionIsSixReplacements ==
    pc = "scanned" =>
        /\ \A p \in 0..(Len(doc) - 1) :
              fractionAt(doc, p) =>
                  \E i \in DOMAIN field.concealments :
                      /\ field.concealments[i].spec = Group(fractionParts(doc, p))
                      /\ \A j \in DOMAIN field.concealments :
                            field.concealments[j].spec.parts[1].start = p => j = i
        /\ doc = SimpleFraction =>
              rendering(doc, buildDecoSet(field), 0)
                  = <<"(", "a", ")", "/", "(", "a", ")">>

\* C19 witness: a fraction whose numerator holds a nested pair of braces
\* has been scanned.
NestedNumeratorScanned ==
    /\ pc = "scanned"
    /\ fractionAt(doc, 0)
    /\ charAt(doc, 6) = "{"
    /\ closeOf(doc, 5) > 7
    /\ Len(field.concealments) = 1

\* The members of a spec are well-formed, sorted by start, and none reaches
\* into a later one.
ordered(parts) ==
    /\ \A k \in 1..Len(parts) : parts[k].start <= parts[k].end
    /\ \A k, m \in 1..Len(parts) :
          k < m => /\ parts[k].start <= parts[m].start
                   /\ parts[k].end <= parts[m].start

\* C20: the members of every grouped spec the scanner emits (fraction,
\* bra-ket, set) have start <= end, are sorted by start and do not overlap,
\* in the offsets of the equation and in the offsets of the document.
GroupMembersOrdered ==
    pc \in {"scanned", "translated"} =>
        \A i \in DOMAIN field.concealments :
            field.concealments[i].spec.isSet
                => ordered(field.concealments[i].spec.parts)

\* C20 witness: the group of a fraction has been translated to the offsets
\* of a document in which the equation starts at MaxStart.
FractionGroupTranslated ==
    /\ pc = "translated"
    /\ fractionAt(doc, 0)
    /\ \E i \in DOMAIN field.concealments :
          /\ field.concealments[i].spec.isSet
          /\ Len(field.concealments[i].spec.parts) = 6
          /\ field.concealments[i].spec.parts[1].start = MaxStart
          /\ field.concealments[i].spec.parts[4].start
                = field.concealments[i].spec.parts[4].end

\* The grouped commands that start at offset p of text (at most one).
commandsAt(text, p) == {c \in ScanCommands : startsWithAt(text, c, p)}

\* The occurrence of command c at offset p is well formed: its brace is
\* matched and, for a fraction, the denominator follows and is matched.
wellFormedAt(text, p, c) ==
    IF c = FracCommand THEN fractionAt(text, p)
    ELSE closeOf(text, p + Len(c) - 1) # -1

groupSize(c) == IF c = FracCommand THEN 6 ELSE 3

\* The offsets of text at which a well-formed grouped construct starts.
wellFormedStarts(text) ==
    {p \in 0..(Len(text) - 1) :
        \E c \in commandsAt(text, p) : wellFormedAt(text, p, c)}

\* C21: after the scan, the specs are exactly the whole groups of the
\* well-formed occurrences: one complete group for each of them, wherever
\* it stands in the text, and nothing for a malformed occurrence.
MalformedGroupIsSkipped ==
    pc = "scanned" =>
        /\ Len(field.concealments) = Cardinality(wellFormedStarts(doc))
        /\ \A p \in 0..(Len(doc) - 1) : \A c \in commandsAt(doc, p) :
              LET here == {i \in DOMAIN field.concealments :
                              \E k \in DOMAIN field.concealments[i].spec.parts :
                                  field.concealments[i].spec.parts[k].start = p}
              IN  IF wellFormedAt(doc, p, c)
                  THEN \E i \in here :
                          /\ field.concealments[i].spec.isSet
                          /\ Len(field.concealments[i].spec.parts) = groupSize(c)
                          /\ field.concealments[i].spec.parts[1].start = p
                  ELSE \A i \in here :
                          field.concealments[i].spec.parts[1].start < p

\* C21 witness: a command whose brace is never closed stands before a
\* well-formed occurrence, and the scan emitted the group of the latter.
LaterOccurrenceScanned ==
    /\ pc = "scanned"
    /\ \E c \in commandsAt(doc, 0) : ~wellFormedAt(doc, 0, c)
    /\ wellFormedStarts(doc) # {}
    /\ Len(field.concealments) = 1

\* The specs of a list of concealments, in order.
specsOf(concealments) ==
    [k \in 1..Len(concealments) |-> concealments[k].spec]

translatedBy(before, after, start) ==
    /\ Len(after) = Len(before)
    /\ \A i \in 1..Len(before) :
          /\ after[i].isSet = before[i].isSet
          /\ Len(after[i].parts) = Len(before[i].parts)
          /\ \A k \in 1..Len(before[i].parts) :
                /\ after[i].parts[k].start = before[i].parts[k].start + start
                /\ after[i].parts[k].end = before[i].parts[k].end + start
                /\ after[i].parts[k].replacement = before[i].parts[k].replacement

\* C23: the translation to document offsets adds the start of the equation
\* to the start and the end of every Replacement of every spec, once; so
\* every Replacement keeps its width and the members of a group keep their
\* distances.
TranslationAddsStartOnce ==
    [][(pc = "scanned" /\ pc' = "translated") =>
          /\ \E start \in 1..MaxStart :
                translatedBy(specsOf(field.concealments),
                             specsOf(field'.concealments), start)
          /\ \A i \in DOMAIN field.concealments :
             \A k, m \in DOMAIN field.concealments[i].spec.parts :
                /\ field'.concealments[i].spec.parts[k].end
                     - field'.concealments[i].spec.parts[k].start
                   = field.concealments[i].spec.parts[k].end
                     - field.concealments[i].spec.parts[k].start
                /\ field'.concealments[i].spec.parts[m].start
                     - field'.concealments[i].spec.parts[k].start
                   = field.concealments[i].spec.parts[m].start
                     - field.concealments[i].spec.parts[k].start]_vars

\* C23 witness: two groups have been translated by MaxStart.
TwoGroupsTranslated ==
    /\ pc = "translated"
    /\ Len(field.concealments) = 2
    /\ \A i \in 1..2 : field.concealments[i].spec.isSet
    /\ translatedBy(matchers(doc), specsOf(field.concealments), MaxStart)

(***************************************************************************)
(* The symbol, operator and modifier matchers run by themselves.  doc      *)
(* holds the text of one equation: at most MaxSymTokens tokens, each a     *)
(* table command, an operator, \limits, \hat with its brace, a closing     *)
(* brace, a letter or a sign.  field holds the scanned specs as            *)
(* concealments the cursor is apart from.                                  *)
(***************************************************************************)
SymbolTokens ==
    { <<"\\">> \o cmd_symbols[1].name, <<"\\">> \o cmd_symbols[2].name,
      <<"\\">> \o cmd_symbols[3].name,
      <<"\\">> \o operators[1].name, LIMITS,
      <<"\\">> \o HatModifier \o <<"{">>, <<"}">>, <<"a">>, <<"+">> }

RECURSIVE SymbolBodies(_)
SymbolBodies(n) ==
    IF n = 0 THEN {<<>>}
    ELSE SymbolBodies(n - 1) \cup
         {b \o t : b \in SymbolBodies(n - 1), t \in SymbolTokens}

SymbolTexts(n) == SymbolBodies(n)

SymbolInit ==
    /\ doc \in SymbolTexts(MaxSymTokens)
    /\ sel = cursorAt(0)
    /\ mousedown = FALSE
    /\ field = create
    /\ timers = <<>>
    /\ pc = "idle"
    /\ upd = NoUpdate
    /\ destroyed = FALSE
    /\ recon = NoRecon
    /\ last = Step("other")
    /\ reconSinceEvent = 0
    /\ unreconciled = 0

\* One matcher of conceal() is applied to the text of the equation.
Matched(matcher, lst) ==
    /\ pc = "idle"
    /\ pc' = matcher
    /\ field' = scanned(lst)
    /\ UNCHANGED <<doc, sel, mousedown, timers, upd, destroyed, recon, last,
                   reconSinceEvent, unreconciled>>

\* concealSymbols(eqn, "\\\\", "", ALL_SYMBOLS, undefined, false)
ScanSymbols == Matched("symbols", concealSymbols(doc, <<"\\">>, cmd_symbols, FALSE))

\* concealOperators(eqn, operators)
ScanOperators == Matched("operators", concealOperators(doc, operators))

\* concealModifier(eqn, "hat", "\u0302")
ScanModifier ==
    Matched("modifier", concealModifier(doc, HatModifier, CombiningCircumflex))

SymbolNext == ScanSymbols \/ ScanOperators \/ ScanModifier

SymbolSpec == SymbolInit /\ [][SymbolNext]_vars

\* The Replacements the matcher has emitted.
emitted == {field.concealments[i].spec.parts[1] : i \in DOMAIN field.concealments}

AsciiLetters ==
    {"a","b","c","d","e","f","g","h","i","j","k","l","m","n","o","p","q",
     "r","s","t","u","v","w","x","y","z",
     "A","B","C","D","E","F","G","H","I","J","K","L","M","N","O","P","Q",
     "R","S","T","U","V","W","X","Y","Z"}

\* The table entry whose glyph the Replacement r of a symbol or operator
\* matcher shows.
commandOf(r) ==
    LET entries == cmd_symbols \o operators
    IN  entries[CHOOSE k \in DOMAIN entries : entries[k].glyph = r.replacement]

\* The end of the command that r stands for: the backslash and the name of
\* its table entry.
commandEnd(r) == r.start + 1 + Len(commandOf(r).name)

\* C24: with the no-succeeding-letter guard on, no Replacement stands for a
\* table command that is followed at once by an ASCII letter.
NoSymbolBeforeLetter ==
    pc = "symbols" =>
        \A r \in emitted :
            /\ \E k \in DOMAIN cmd_symbols : cmd_symbols[k] = commandOf(r)
            /\ startsWithAt(doc, <<"\\">> \o commandOf(r).name, r.start)
            /\ charAt(doc, commandEnd(r)) \notin AsciiLetters

\* C24 witness: the text starts with the command followed by a letter and
\* holds the command again before a sign; only the second one is concealed.
SymbolBeforeLetterSkipped ==
    /\ pc = "symbols"
    /\ startsWithAt(doc, <<"\\">> \o cmd_symbols[1].name \o <<"a">>, 0)
    /\ Cardinality(emitted) = 1
    /\ \E r \in emitted : r.start > 0 /\ charAt(doc, commandEnd(r)) = "+"

\* C25: every Replacement of the symbol matcher and of the operator matcher
\* ends behind the \limits that follows its command at once, and at the end
\* of its command when no \limits follows.
LimitsIsSwallowed ==
    pc \in {"symbols", "operators"} =>
        \A r \in emitted :
            r.end = IF startsWithAt(doc, LIMITS, commandEnd(r))
                    THEN commandEnd(r) + Len(LIMITS)
                    ELSE commandEnd(r)

\* C25 witness: an operator followed by \limits and one that is not have
\* been concealed.
OperatorWithLimitsScanned ==
    /\ pc = "operators"
    /\ \E r \in emitted : r.end = commandEnd(r) + Len(LIMITS)
    /\ \E r \in emitted : r.end = commandEnd(r)

\* C25 witness for the symbol matcher: a table command followed by \limits
\* has been concealed.
SymbolWithLimitsScanned ==
    /\ pc = "symbols"
    /\ \E r \in emitted : r.end = commandEnd(r) + Len(LIMITS)

\* The offsets of text at which \hat{A} stands, A one ASCII letter.
hatStarts(text) ==
    {p \in 0..(Len(text) - 1) :
        /\ startsWithAt(text, <<"\\", "h", "a", "t", "{">>, p)
        /\ charAt(text, p + 5) \in AsciiLetters
        /\ charAt(text, p + 6) = "}"}

\* C26: the modifier matcher emits a Replacement exactly for every \hat{A}
\* with A one ASCII letter; it spans the construct from the backslash to
\* the closing brace and shows A followed by the combining circumflex.
\* An empty or longer argument gives no Replacement.
HatOfOneLetterOnly ==
    pc = "modifier" =>
        /\ {r.start : r \in emitted} = hatStarts(doc)
        /\ Cardinality(emitted) = Len(field.concealments)
        /\ \A r \in emitted :
              /\ r.end = r.start + 7
              /\ r.replacement = <<charAt(doc, r.start + 5), "U+0302">>

\* C26 witness: \hat{a} has been concealed.
HatOfLetterScanned ==
    /\ pc = "modifier"
    /\ doc = <<"\\", "h", "a", "t", "{", "a", "}">>
    /\ emitted = {Replacement(0, 7, <<"a", "U+0302">>)}

(***************************************************************************)
(* The bracket matcher run by itself.  doc holds a text of braces and      *)
(* letters of at most MaxBracketLen characters and sel the bracket the     *)
(* search starts at; after a search sel holds the range from the opening   *)
(* to the closing bracket, with -1 for a bracket that was not found.       *)
(***************************************************************************)
RECURSIVE BracketBodies(_)
BracketBodies(n) ==
    IF n = 0 THEN {<<>>}
    ELSE BracketBodies(n - 1) \cup
         {b \o <<c>> : b \in BracketBodies(n - 1), c \in {"{", "}", "a"}}

BracketInit ==
    /\ doc \in BracketBodies(MaxBracketLen)
    /\ \E start \in 0..(Len(doc) - 1) :
          /\ doc[start + 1] \in {"{", "}"}
          /\ sel = cursorAt(start)
    /\ mousedown = FALSE
    /\ field = create
    /\ timers = <<>>
    /\ pc = "idle"
    /\ upd = NoUpdate
    /\ destroyed = FALSE
    /\ recon = NoRecon
    /\ last = Step("other")
    /\ reconSinceEvent = 0
    /\ unreconciled = 0

Searched(step, from, to) ==
    /\ pc' = step
    /\ sel' = <<[from |-> from, to |-> to]>>
    /\ UNCHANGED <<doc, mousedown, field, timers, upd, destroyed, recon, last,
                   reconSinceEvent, unreconciled>>

\* findMatchingBracket(text, start, "{", "}", false) at an opening bracket.
SearchForward ==
    /\ pc = "idle"
    /\ charAt(doc, sel[1].from) = "{"
    /\ Searched("forward", sel[1].from,
                findMatchingBracket(doc, sel[1].from, <<"{">>, <<"}">>))

\* findMatchingBracket(text, start, "{", "}", true) at a closing bracket.
SearchBackward ==
    /\ pc = "idle"
    /\ charAt(doc, sel[1].from) = "}"
    /\ Searched("backward",
                findMatchingBracketBackwards(doc, sel[1].from, <<"{">>, <<"}">>),
                sel[1].from)

\* The backward search from the bracket a forward search has found.
SearchBack ==
    /\ pc = "forward"
    /\ sel[1].to # -1
    /\ Searched("inverse",
                findMatchingBracketBackwards(doc, sel[1].to, <<"{">>, <<"}">>),
                sel[1].to)

BracketNext == SearchForward \/ SearchBackward \/ SearchBack

BracketSpec == BracketInit /\ [][BracketNext]_vars

\* The brackets of text at offsets from..to are balanced: as many closed as
\* opened, and never more closed than opened so far.
balanced(text, from, to) ==
    /\ countIn(text, "{", from, to) = countIn(text, "}", from, to)
    /\ \A j \in from..to :
          countIn(text, "}", from, j) <= countIn(text, "{", from, j)

\* The closing brackets that match the opening bracket at offset open, and
\* the opening brackets that match the closing bracket at offset close.
matchesOfOpen(text, open) ==
    {r \in (open + 1)..(Len(text) - 1) :
        charAt(text, r) = "}" /\ balanced(text, open + 1, r - 1)}

matchesOfClose(text, close) ==
    {l \in 0..(close - 1) :
        charAt(text, l) = "{" /\ balanced(text, l + 1, close - 1)}

\* C27: the forward search from an opening bracket returns the closing
\* bracket behind it with balanced brackets in between, and -1 exactly
\* when the text has no such bracket.
ForwardFindsMatchingClose ==
    pc = "forward" =>
        IF matchesOfOpen(doc, sel[1].from) = {}
        THEN sel[1].to = -1
        ELSE /\ sel[1].to \in matchesOfOpen(doc, sel[1].from)
             /\ sel[1].to > sel[1].from
             /\ charAt(doc, sel[1].to) = "}"

\* C27 witness: the search has passed a nested pair of brackets.
NestedPairPassed ==
    /\ pc = "forward"
    /\ sel[1].to > sel[1].from + 2
    /\ charAt(doc, sel[1].from + 1) = "{"

\* C27 witness: the search has found no match.
NoMatchingClose ==
    /\ pc = "forward"
    /\ sel[1].to = -1
    /\ countIn(doc, "}", sel[1].from, Len(doc) - 1) > 0

\* C28: the backward search from the bracket found by a forward search
\* returns the bracket the forward search started at, and the backward
\* search from a closing bracket without a matching opening bracket
\* returns -1.
BackwardInvertsForward ==
    /\ [][(pc = "forward" /\ pc' = "inverse") => sel'[1].from = sel[1].from]_vars
    /\ [](pc = "backward" =>
             (matchesOfClose(doc, sel[1].to) = {} => sel[1].from = -1))

\* C28 witness: the backward search has returned over a nested pair to the
\* opening bracket the forward search started at.
ReturnedToOpen ==
    /\ pc = "inverse"
    /\ sel[1].from # -1
    /\ matchesOfOpen(doc, sel[1].from) = {sel[1].to}
    /\ sel[1].to > sel[1].from + 2
    /\ charAt(doc, sel[1].from + 1) = "{"

\* C28 witness: a closing bracket behind an opening one has no match.
NoMatchingOpen ==
    /\ pc = "backward"
    /\ sel[1].from = -1
    /\ countIn(doc, "{", 0, sel[1].to) > 0

(***************************************************************************)
(* The region locator run by itself.  doc holds a document of dollars,     *)
(* backslashes and letters of at most MaxLocateLen characters and sel the  *)
(* position; after the search sel holds the position and then the bounds   *)
(* (NoBounds when the locator returns nothing).                            *)
(***************************************************************************)
RECURSIVE LocateBodies(_)
LocateBodies(n) ==
    IF n = 0 THEN {<<>>}
    ELSE LocateBodies(n - 1) \cup
         {b \o <<c>> : b \in LocateBodies(n - 1), c \in {"$", "\\", "a"}}

LocateInit ==
    /\ doc \in LocateBodies(MaxLocateLen)
    /\ \E pos \in 0..Len(doc) : sel = cursorAt(pos)
    /\ mousedown = FALSE
    /\ field = create
    /\ timers = <<>>
    /\ pc = "idle"
    /\ upd = NoUpdate
    /\ destroyed = FALSE
    /\ recon = NoRecon
    /\ last = Step("other")
    /\ reconSinceEvent = 0
    /\ unreconciled = 0

\* getEquationBounds(state, pos)
Locate ==
    /\ pc = "idle"
    /\ pc' = "located"
    /\ \E bounds \in {getEquationBounds(doc, sel[1].from)} :
          sel' = sel \o <<[from |-> bounds.start, to |-> bounds.end]>>
    /\ UNCHANGED <<doc, mousedown, field, timers, upd, destroyed, recon, last,
                   reconSinceEvent, unreconciled>>

LocateNext == Locate

LocateSpec == LocateInit /\ [][LocateNext]_vars

\* The offsets of the dollars of text that no backslash stands before.
unescapedDollars(text) ==
    {i \in 0..(Len(text) - 1) :
        text[i + 1] = "$" /\ (i = 0 \/ text[i] # "\\")}

\* C29: the locator returns nothing when no unescaped dollar stands before
\* the position or none at or behind it; otherwise it returns the region
\* from one past the nearest unescaped dollar before the position to the
\* nearest one at or behind it, which holds the position and no unescaped
\* dollar.
LocatorReturnsEnclosingRegion ==
    pc = "located" =>
        LET pos == sel[1].from
            before == {i \in unescapedDollars(doc) : i < pos}
            behind == {i \in unescapedDollars(doc) : i >= pos}
        IN  IF before = {} \/ behind = {}
            THEN sel[2] = [from |-> -1, to |-> -1]
            ELSE /\ \A i \in before : i + 1 <= sel[2].from
                 /\ sel[2].from - 1 \in before
                 /\ \A i \in behind : sel[2].to <= i
                 /\ sel[2].to \in behind
                 /\ sel[2].from <= pos /\ pos <= sel[2].to
                 /\ \A i \in unescapedDollars(doc) :
                       ~(sel[2].from <= i /\ i < sel[2].to)

\* C29 witness: at position 0 of a document that starts with a dollar the
\* locator has returned a region that starts behind the position.
RegionBehindPosition ==
    /\ pc = "located"
    /\ sel[1].from = 0
    /\ sel[2].from > sel[1].from
    /\ sel[2].to < sel[2].from

\* C30: in the state a reconciliation installs, a candidate is disabled
\* exactly when its action is reveal; conceal and delay install it enabled.
EnableIffNotReveal ==
    JustReconciled =>
        /\ Len(field.concealments) = Len(recon.decisions)
        /\ \A i \in DOMAIN recon.decisions :
              /\ recon.decisions[i].action = "reveal"
                    <=> ~field.concealments[i].enable
              /\ recon.decisions[i].action \in {"conceal", "delay"}
                    => field.concealments[i].enable

\* C30 witness: one reconciliation has installed a revealed and a delayed
\* candidate.
RevealedBesideDelayed ==
    /\ JustReconciled
    /\ \E i, j \in DOMAIN recon.decisions :
          /\ recon.decisions[i].action = "reveal"
          /\ ~field.concealments[i].enable
          /\ recon.decisions[j].action = "delay"
          /\ field.concealments[j].enable

(***************************************************************************)
(* Positions of the painted replacements.  The host paints the decoration  *)
(* set of the field it holds; between a transaction and the dispatch of    *)
(* the listener it holds the new document with the field of the start      *)
(* state, which the listener reads back as update.startState.field.        *)
(***************************************************************************)
\* Every replacement of every enabled concealment lies inside the text.
inDocument(concealments, text) ==
    \A i \in DOMAIN concealments :
        concealments[i].enable =>
            \A m \in membersOf(concealments[i].spec) :
                0 <= m.start /\ m.start <= m.end /\ m.end <= Len(text)

\* The field the view held with the present document before the dispatch
\* that is being delivered.
heldBeforeDispatch == upd.startField

\* C31: in every state from which decorations are built, every Replacement
\* of every enabled concealment satisfies 0 <= start <= end <= length of
\* that state's document, the state right after a document change and
\* before the listener's state is installed included.
PaintedReplacementsInDocument ==
    /\ inDocument(field.concealments, doc)
    /\ JustReconciled => inDocument(heldBeforeDispatch.concealments, doc)

\* A reconciliation of a deletion has installed a state whose enabled
\* replacements lie in the shortened document.
DeletionReconciled ==
    /\ JustReconciled
    /\ recon.changes.from < recon.changes.to
    /\ recon.changes.insert = <<>>
    /\ \E i \in DOMAIN field.concealments : field.concealments[i].enable
    /\ inDocument(field.concealments, doc)

\* C32: the cursorPosType stored for each concealment of an installed
\* state is the classifier's result for the selection of the update being
\* reconciled, whatever the mouse state and the chosen action; the state
\* a timeout callback installs keeps the types of its reconciliation.
StoredTypeIsClassification ==
    /\ JustReconciled =>
          \A i \in DOMAIN field.concealments :
              field.concealments[i].cursorPosType
                  = determineCursorPosType(sel, field.concealments[i].spec)
    /\ JustFired =>
          /\ Len(field.concealments) = Len(last.before)
          /\ \A i \in DOMAIN field.concealments :
                 field.concealments[i].cursorPosType
                     = last.before[i].cursorPosType

\* A reconciliation with the mouse button down has recorded within or edge
\* for a candidate under the cursor, and conceals it.
TypeRecordedWithMouseDown ==
    /\ JustReconciled
    /\ mousedown
    /\ \E i, j \in DOMAIN field.concealments :
          /\ field.concealments[i].cursorPosType = "within"
          /\ field.concealments[i].enable
          /\ recon.decisions[i].action = "conceal"
          /\ field.concealments[j].cursorPosType = "edge"

\* A host update that leaves the document alone is reconciled, and the
\* old state holds the scan of this document.
rescansSameRegions ==
    /\ pc = "idle" /\ pc' = "listener" /\ last'.kind # "fire"
    /\ doc' = doc
    /\ specsOf(field.concealments) = ScanOf[doc]

\* The old concealments at the position of the new candidate.
identityMatches(oldConcealments, concealSpec) ==
    {j \in DOMAIN oldConcealments :
        atSamePosAfter(NoChange, oldConcealments[j].spec, concealSpec)}

\* C33: for an update that changes only the selection (document and
\* scanned regions unchanged), every new candidate finds an identity match
\* in the old state, every old concealment at its position carries the
\* classification of that candidate under the previous selection, and this
\* is the old cursorPosType the decision uses.
SelectionOnlyMatchesItself ==
    [][rescansSameRegions =>
          \A i \in DOMAIN ScanOf[doc] :
              LET was == determineCursorPosType(sel, ScanOf[doc][i])
                  hits == identityMatches(field.concealments, ScanOf[doc][i])
              IN  /\ i \in hits
                  /\ \A j \in hits : field.concealments[j].cursorPosType = was
                  /\ recon'.decisions[i].old = was]_vars

\* A selection change over an unchanged document has been reconciled: one
\* candidate was within the old selection and is apart from the new one,
\* another was apart before.
SelectionMovedOffCandidate ==
    /\ JustReconciled
    /\ recon.changes = NoChange
    /\ specsOf(recon.prev) = ScanOf[doc]
    /\ \E i, j \in DOMAIN recon.decisions :
          /\ recon.decisions[i].old = "within"
          /\ recon.decisions[i].new = "apart"
          /\ recon.prev[i].cursorPosType = "within"
          /\ recon.decisions[j].old = "apart"

\* The offsets of text at which the command of the k-th key of the command
\* table stands with no letter behind it.
occurrences(text, k) ==
    {p \in 0..(Len(text) - 1) :
        /\ startsWithAt(text, <<"\\">> \o cmd_symbols[k].name, p)
        /\ charAt(text, p + 1 + Len(cmd_symbols[k].name)) \notin AsciiLetters}

\* The scanned specs that start at offset p and show glyph.
emittedAt(p, glyph) ==
    {i \in DOMAIN field.concealments :
        /\ field.concealments[i].spec.parts[1].start = p
        /\ field.concealments[i].spec.parts[1].replacement = glyph}

\* C34: direct symbol substitution is complete.  For every occurrence of
\* the backslash followed by a key of the table and by no letter, the
\* matcher emits one Replacement that starts at the occurrence and shows
\* the glyph of that key, also when another key is a proper prefix of it.
SymbolSubstitutionComplete ==
    pc = "symbols" =>
        \A k \in DOMAIN cmd_symbols :
            \A p \in occurrences(doc, k) :
                Cardinality(emittedAt(p, cmd_symbols[k].glyph)) = 1

\* The text holds the command of the shorter key and the command of the
\* key it is a prefix of, and the matcher has concealed the shorter one.
PrefixedKeyScanned ==
    /\ pc = "symbols"
    /\ occurrences(doc, 3) # {}
    /\ \E p \in occurrences(doc, 2) : emittedAt(p, cmd_symbols[2].glyph) # {}

\* The offsets of text at which the k-th operator stands as a command: the
\* backslash, the name, and a non-letter or the end of the text behind it.
operatorOccurrences(text, k) ==
    {p \in 0..(Len(text) - 1) :
        /\ startsWithAt(text, <<"\\">> \o operators[k].name, p)
        /\ charAt(text, p + 1 + Len(operators[k].name)) \notin AsciiLetters}

\* The Replacement the operator matcher owes to the k-th operator at p.
operatorReplacement(text, k, p) ==
    LET nameEnd == p + 1 + Len(operators[k].name)
    IN  Replacement(p,
                    IF startsWithAt(text, LIMITS, nameEnd)
                    THEN nameEnd + Len(LIMITS) ELSE nameEnd,
                    operators[k].glyph)

\* C35: the operator matcher emits one Replacement for every occurrence of
\* a backslash and an operator name followed by a non-letter or by the end
\* of the text, an operator right behind another operator included; it
\* starts at the backslash, covers the command and a \limits right behind
\* it but not the next character, and shows the operator name.
EveryOperatorIsConcealed ==
    pc = "operators" =>
        \A k \in DOMAIN operators :
            \A p \in operatorOccurrences(doc, k) :
                Cardinality({i \in DOMAIN field.concealments :
                                field.concealments[i].spec
                                    = Single(operatorReplacement(doc, k, p))}) = 1

\* Two operators with a sign between them have both been concealed, and
\* the sign is left to the text.
OperatorsAroundSignScanned ==
    /\ pc = "operators"
    /\ doc = <<"\\">> \o operators[1].name \o <<"+", "\\">> \o operators[1].name
    /\ emitted = {Replacement(0, 4, operators[1].glyph),
                  Replacement(5, 9, operators[1].glyph)}

\* The delimiters of the three bra-ket commands, as glyph names.
BraKetDelimiters ==
    [braket |-> <<"langle", "rangle">>, bra |-> <<"langle", "vert">>,
     ket |-> <<"vert", "rangle">>]

\* The group owed to the bra-ket command of the k-th type at offset p of
\* text, whose brace closes at offset close.
braKetGroup(k, p, close) ==
    LET open == p + 1 + Len(BraKetTypes[k].name)
        delimiters == BraKetDelimiters[BraKetTypes[k].type]
    IN  Group(<<Replacement(p, open, ""),
                Replacement(open, open + 1, delimiters[1]),
                Replacement(close, close + 1, delimiters[2])>>)

\* C36: for \bra{X}, \ket{X} and \braket{X} with a matched close brace the
\* scan holds one group of three Replacements: the command -> the empty
\* string, the open brace -> the left delimiter, the matched close brace ->
\* the right delimiter; the left delimiter is the bar for ket and the left
\* angle bracket otherwise, the right one the bar for bra and the right
\* angle bracket otherwise; \braket{ is matched as braket only.
BraKetIsThreeReplacements ==
    pc = "scanned" =>
        \A k \in DOMAIN BraKetTypes :
            \A p \in 0..(Len(doc) - 1) :
                LET command == <<"\\">> \o BraKetTypes[k].name \o <<"{">>
                    close == closeOf(doc, p + Len(command) - 1)
                    here == {i \in DOMAIN field.concealments :
                                field.concealments[i].spec.parts[1].start = p}
                IN  (startsWithAt(doc, command, p) /\ close # -1) =>
                        /\ Cardinality(here) = 1
                        /\ \A i \in here :
                              field.concealments[i].spec = braKetGroup(k, p, close)

\* \ket{{}} has been scanned: the bar stands for the open brace and the
\* right angle bracket for the outer close brace.
KetAroundBracesScanned ==
    /\ pc = "scanned"
    /\ doc = <<"\\", "k", "e", "t", "{", "{", "}", "}">>
    /\ specsOf(field.concealments)
         = <<Group(<<Replacement(0, 4, ""), Replacement(4, 5, "vert"),
                     Replacement(7, 8, "rangle")>>)>>

====
